---- MODULE Spec2Model ----
(***************************************************************************)
(* Falcon tunnel: the server's accept loop, connection registry, handshake *)
(* step, connection pool and the bidirectional proxy engine, as a state    *)
(* machine.  One tunnel-side connection c has two endpoints: side "a" is   *)
(* the tunnel connection accepted by Serve, side "b" the upstream (FTP)    *)
(* connection dialled by the pool.                                         *)
(***************************************************************************)
EXTENDS Integers, Sequences, FiniteSets, TLC

\* ------------------------------------------------------------------ bounds
NumConns == 2        \* connections offered to the listener
MaxPoolSize == 2     \* largest configured pool_size explored
MaxConnLimit == 1    \* largest configured max_connections explored
MaxSend == 1         \* tokens a tunnel-side peer sends
MaxUpSend == 1       \* tokens an upstream peer sends
MaxPeerOps == 3      \* peer events (sends, closes) on the connections being handled
IdleT == 2           \* the positive idle timeout explored (clock units)
MaxTime == 7         \* horizon of the clock of the timed specification
IdleMargin == 2      \* the "bounded margin" allowed on top of the idle timeout
MaxReplies == 2      \* frames an arbitrary peer answers HandshakeClient with
NumStarts == 2       \* calls of Client.Start
NumLocal == 2        \* local connections offered to the client's listener
MaxAttempts == 3     \* largest configured Client.MaxRetries
MaxMsgs == 2         \* chunks the local client and the upstream each write end to end
NumPoolConns == 2    \* connections asked of a connPool used on its own
MaxReleases == 3     \* Release calls made on a connPool used on its own
MaxWrites == 2       \* Encode calls and other writes on the stream of the codec

Conn == 1..NumConns
Sides == {"a", "b"}
Other(s) == IF s = "a" THEN "b" ELSE "a"
Tokens == {"auth_ok", "auth_bad", "data"}

VARIABLES
    cfg,       \* configuration: maxConn, poolSize, auth, timeout, idle
    serve,     \* position of Serve: off, accept, poolclose, shutdown, wait, returned
    ctxDone,   \* the context passed to Serve is cancelled
    lnClosed,  \* the listener is closed
    conns,     \* Server.conns: id -> connection
    nextID,    \* Server.nextID
    wg,        \* Server.wg counter
    sem,       \* number of tokens in connPool.sem
    hpc,       \* position of each connection's handler goroutine
    herr,      \* the error handleConn returned
    hs,        \* outcome of HandshakeServer: none, pass, reject, ok, fail
    ep,        \* ep[c][s]: the endpoint of connection c on side s
    px,        \* px[c]: the goroutines of proxyWithIdle for connection c
    now,       \* clock (timed specification only)
    tm,        \* timers of the timed specification: deadlines, tickers, last byte
    hc,        \* HandshakeClient at the other end of connection 1
    cl,        \* the tunnel Client: its running flag, Start calls and handlers
    pr,        \* calls of protocol.Encode and protocol.Decode on one stream
    pq,        \* a connPool used on its own: Acquire, Release and Close calls
    tk         \* calls of auth.GenerateToken

bvars == <<cfg, serve, ctxDone, lnClosed, conns, nextID, wg, sem, hpc, herr, hs, ep, px>>
\* what lies outside the server: the clock, the tunnel client, the codec and
\* the pool on its own
tvars == <<now, tm, hc, cl, pr, pq, tk>>
vars == <<cfg, serve, ctxDone, lnClosed, conns, nextID, wg, sem, hpc, herr, hs, ep, px, now, tm, hc, cl, pr, pq, tk>>

\* --------------------------------------------------------------- endpoints
\* st: none/open/closed (our end); dl: a read/write deadline is set; inbuf: tokens
\* received and not yet read; peer: up/fin (the remote end is live, has closed);
\* out: tokens the remote end received from us; sent: tokens the remote end sent
NoEp == [st |-> "none", dl |-> FALSE, inbuf |-> <<>>, peer |-> "up",
         out |-> <<>>, sent |-> 0]
OpenEp == [NoEp EXCEPT !.st = "open"]

\* net.Conn.Close: later I/O fails with net.ErrClosed, pending input is never read
CloseEp(e) == IF e.st = "open" THEN [e EXCEPT !.st = "closed", !.dl = FALSE] ELSE e

\* tokens read from endpoint e so far
NumRead(e) == e.sent - Len(e.inbuf)

\* net.Conn.SetDeadline: an error on a closed connection is ignored by every caller
SetDeadlineNeverCleared(e, on) == IF e.st = "open" THEN [e EXCEPT !.dl = TRUE] ELSE e
SetDeadline(e, on) == IF e.st = "open" THEN [e EXCEPT !.dl = on] ELSE e

\* what a Read on endpoint e can come to: closed (net.ErrClosed), timeout (the
\* deadline has passed: possible only when `due`), data, eof, or block
ReadOutcomes(e, due) ==
    IF e.st # "open" THEN {"closed"}
    ELSE (IF e.dl /\ due THEN {"timeout"} ELSE {}) \cup
         {IF e.inbuf # <<>> THEN "data"
          ELSE IF e.peer = "fin" THEN "eof"
          ELSE "block"}

\* what a Write on endpoint e can come to: closed, timeout, ok, and towards a
\* peer that has closed its socket either ok (the bytes are lost) or ioerr (the
\* peer has answered with a reset)
WriteOutcomes(e, due) ==
    IF e.st # "open" THEN {"closed"}
    ELSE (IF e.dl /\ due THEN {"timeout"} ELSE {}) \cup
         (IF e.peer = "fin" THEN {"ioerr", "ok"} ELSE {"ok"})

Consume(e) == [e EXCEPT !.inbuf = Tail(@)]

\* a successful Write: the token reaches a live peer
Deliver(e, tok) == IF e.peer = "up" THEN [e EXCEPT !.out = Append(@, tok)] ELSE e

\* ------------------------------------------------------------------- pool
\* newConnPool: capacity of the semaphore channel
PoolCap(maxSize) == IF maxSize <= 0 THEN 1 ELSE maxSize

\* connPool.Acquire line 108: a send on sem succeeds while the channel has room
SemHasRoomOffByOne(n, capacity) == n <= capacity
SemHasRoom(n, capacity) == n < capacity

\* connPool.releaseToken: non-blocking receive from sem
ReleaseTokenKept(n) == n
ReleaseToken(n) == IF n > 0 THEN n - 1 ELSE n

\* ----------------------------------------------------------------- proxy
\* main: off/wait/ret (proxyWithIdle not called, in its receive loop, returned);
\* nrecv: results received from errs; cp[s]: the goroutine copying from side s;
\* rf[s]: the refreshDeadline goroutine of side s; stop: the stop channel is closed
PxOff == [main |-> "off", nrecv |-> 0, firstErr |-> "nil",
          cp |-> [s \in Sides |-> "off"], rf |-> [s \in Sides |-> "off"],
          stop |-> FALSE]

\* proxyWithIdle lines 12-25: the channels and the four goroutines; a refresher
\* started with idle <= 0 returns at once
PxStarted(idle) ==
    [main |-> "wait", nrecv |-> 0, firstErr |-> "nil",
     cp |-> [s \in Sides |-> "run"],
     rf |-> [s \in Sides |-> IF idle <= 0 THEN "done" ELSE "run"],
     stop |-> FALSE]

\* refreshDeadline lines 40-45 on both connections: with idle > 0 the first
\* deadline is set as the goroutine starts
FirstDeadline(e, idle) ==
    [s \in Sides |-> IF idle > 0 THEN SetDeadline(e[s], TRUE) ELSE e[s]]

\* the write half of an iteration of io.Copy, for write outcome w
WriteStep(w) ==
    CASE w = "ok" -> "move"
      [] w = "closed" -> "w_closed"
      [] w = "timeout" -> "w_timeout"
      [] OTHER -> "w_ioerr"

\* one iteration of io.Copy(dst, src): what the read from src and the write to
\* dst can come to
CopyOutcomes(src, dst, rdue, wdue) ==
    UNION {IF r = "data"
           THEN {WriteStep(w) : w \in WriteOutcomes(dst, wdue)}
           ELSE {r} : r \in ReadOutcomes(src, rdue)}

\* the error io.Copy returns for an outcome that ends it (EOF is a nil error)
CopyErr(o) ==
    CASE o = "eof" -> "nil"
      [] o \in {"closed", "w_closed"} -> "closed"
      [] o \in {"timeout", "w_timeout"} -> "timeout"
      [] OTHER -> "ioerr"

\* proxyWithIdle line 29: which error is kept as firstErr
KeepLast(firstErr, err) == IF err # "nil" THEN err ELSE firstErr
KeepFirst(firstErr, err) ==
    IF err # "nil" /\ firstErr = "nil" /\ err # "closed" THEN err ELSE firstErr

\* proxyWithIdle lines 34-35: a.Close(), b.Close()
TeardownLeaky(e) == [s \in Sides |-> IF s = "a" THEN CloseEp(e[s]) ELSE e[s]]
Teardown(e) == [s \in Sides |-> CloseEp(e[s])]

notProxy == <<cfg, serve, ctxDone, lnClosed, conns, nextID, wg, sem, hpc, herr, hs>>

\* io.Copy(dst, src) with src on side s: one chunk read from src and written to dst
CopyMoveEff(c, s) ==
    /\ px[c].cp[s] = "run"
    /\ "move" \in CopyOutcomes(ep[c][s], ep[c][Other(s)], FALSE, FALSE)
    /\ ep' = [ep EXCEPT ![c][s] = Consume(@),
                        ![c][Other(s)] = Deliver(@, Head(ep[c][s].inbuf))]
    /\ UNCHANGED px
    /\ UNCHANGED notProxy

CopyMove(c, s) == CopyMoveEff(c, s) /\ UNCHANGED tvars

\* io.Copy returns with outcome o (EOF, a read error or a write error) and the
\* goroutine sends the error on errs; errs has capacity 2, so neither sender
\* blocks, and proxyWithIdle (lines 28-32) receives the results in the order
\* sent: the receive is taken together with the send
CopyEndEff(c, s, o) ==
    /\ px[c].cp[s] = "run"
    /\ o \notin {"move", "block"}
    /\ ep' = IF o \in {"w_closed", "w_timeout", "w_ioerr"}
             THEN [ep EXCEPT ![c][s] = Consume(@)]
             ELSE ep
    /\ px' = [px EXCEPT ![c].cp[s] = "done",
                        ![c].nrecv = @ + 1,
                        ![c].firstErr = KeepFirst(@, CopyErr(o))]
    /\ UNCHANGED notProxy

\* without a clock a deadline that is set may have passed at any moment
CopyEnd(c, s) ==
    /\ \E o \in CopyOutcomes(ep[c][s], ep[c][Other(s)], TRUE, TRUE) : CopyEndEff(c, s, o)
    /\ UNCHANGED tvars

\* proxyWithIdle lines 33-36: after both receives, stop the refreshers, close
\* both connections, return firstErr.  A refresher that is still running can
\* now only call SetDeadline on closed connections, which changes nothing, and
\* then see stop closed: its exit is taken together with close(stop)
ProxyFinish(c) ==
    /\ px[c].main = "wait"
    /\ px[c].nrecv = 2
    /\ px' = [px EXCEPT ![c].main = "ret", ![c].stop = TRUE,
                        ![c].rf = [s \in Sides |-> "done"]]
    /\ ep' = [ep EXCEPT ![c] = Teardown(@)]
    /\ UNCHANGED notProxy
    /\ UNCHANGED tvars

\* refreshDeadline lines 50-51: a tick of the ticker moves the deadline forward
RefreshTickEff(c, s) ==
    /\ px[c].rf[s] = "run"
    /\ ep' = [ep EXCEPT ![c][s] = SetDeadline(@, TRUE)]
    /\ UNCHANGED px
    /\ UNCHANGED notProxy

RefreshTick(c, s) == RefreshTickEff(c, s) /\ UNCHANGED tvars

\* ------------------------------------------------------------------ peers
\* a handler goroutine (or, without a server, a proxyWithIdle call) is at work
\* on connection c; what a peer does to a connection nobody reads any more is
\* not followed
Live(c) == hpc[c] \notin {"none", "rejected", "done"}

\* what the peers of connection c have done: tokens sent and sockets closed
PeerOps(c) ==
    ep[c]["a"].sent + ep[c]["b"].sent
    + (IF ep[c]["a"].peer = "fin" THEN 1 ELSE 0)
    + (IF ep[c]["b"].peer = "fin" THEN 1 ELSE 0)

RECURSIVE LiveOps(_)
LiveOps(n) == IF n = 0 THEN 0
              ELSE LiveOps(n - 1) + (IF Live(n) THEN PeerOps(n) ELSE 0)

\* the peers of the connections being handled have a bounded number of events
\* between them
PeersMayAct == LiveOps(NumConns) < MaxPeerOps

\* the remote end of side s sends one token
PeerSend(c, s, tok) ==
    /\ Live(c)
    /\ PeersMayAct
    /\ ep[c][s].st = "open"
    /\ ep[c][s].peer = "up"
    /\ ep[c][s].sent < (IF s = "a" THEN MaxSend ELSE MaxUpSend)
    /\ ep' = [ep EXCEPT ![c][s].inbuf = Append(@, tok), ![c][s].sent = @ + 1]
    /\ UNCHANGED px
    /\ UNCHANGED notProxy
    /\ UNCHANGED tvars

\* the remote end of side s closes its socket
PeerClose(c, s) ==
    /\ Live(c)
    /\ PeersMayAct
    /\ ep[c][s].st = "open"
    /\ ep[c][s].peer = "up"
    /\ ep' = [ep EXCEPT ![c][s].peer = "fin"]
    /\ UNCHANGED px
    /\ UNCHANGED notProxy
    /\ UNCHANGED tvars

\* what a tunnel client can send: with authentication disabled every token is
\* plain data to the server
PeerTokens == IF cfg.auth THEN Tokens ELSE {"data"}

\* ----------------------------------------------------------------- server
\* Server.registerConn line 139: the admission test
AtCapacityOffByOne(n, maxConn) == maxConn > 0 /\ n > maxConn
AtCapacity(n, maxConn) == maxConn > 0 /\ n >= maxConn

\* Server.registerConn line 142: atomic.AddUint64(&s.nextID, 1), the ID the
\* connection is registered under, n being the counter before
NewIDOfLast(n) == n
NewID(n) == n + 1

\* Server.unregisterConn: the entry holding connection c is deleted
UnregisterNone(reg, c) == reg
Unregister(reg, c) ==
    [i \in {j \in DOMAIN reg : reg[j] # c} |-> reg[i]]

Registered(c) == \E i \in DOMAIN conns : conns[i] = c

\* protocol.Message.Type of a frame: the Auth frames carry the matching or a
\* wrong password, the AuthResponse frames the payloads "ok", "invalid
\* credentials" and "OK"; every other frame is a Data frame here
FrameType(tok) ==
    CASE tok \in {"auth_ok", "auth_bad"} -> "Auth"
      [] tok \in {"resp_ok", "resp_invalid", "resp_OK"} -> "AuthResponse"
      [] OTHER -> "Data"

\* protocol.Message.Payload of a frame
Payload(tok) ==
    CASE tok = "auth_ok" -> "good"
      [] tok = "auth_bad" -> "bad"
      [] tok = "resp_ok" -> "ok"
      [] tok = "resp_invalid" -> "invalid credentials"
      [] tok = "resp_OK" -> "OK"
      [] OTHER -> "bytes"

\* HandshakeServer line 36: msg.Type is protocol.MsgAuth
IsAuthAny(tok) == TRUE
IsAuth(tok) == FrameType(tok) = "Auth"

\* auth.HashPassword: the bcrypt hash of a password; the salt is left out, one
\* hash stands for all the hashes of a password
HashPassword(pw) ==
    CASE pw = "good" -> "hash_good"
      [] pw = "bad" -> "hash_bad"
      [] OTHER -> "hash_other"

\* Authenticate line 20: bcrypt.CompareHashAndPassword returns nil; it returns
\* an error for a hash of another password and for a string that is no hash
CompareHashAndPasswordAny(hash, pw) == hash # ""
CompareHashAndPassword(hash, pw) == hash = HashPassword(pw)

\* Authenticator.Authenticate on a password, hash being the passwordHash the
\* Authenticator was made with ("": none configured)
AuthenticateNever(hash, pw) == FALSE
Authenticate(hash, pw) ==
    IF hash = "" THEN FALSE ELSE CompareHashAndPassword(hash, pw)

\* HandshakeServer lines 40-47: the AuthResponse frame for a verdict
ResponseForAlwaysOk(ok) == "resp_ok"
ResponseFor(ok) == IF ok THEN "resp_ok" ELSE "resp_invalid"

notHandler == <<cfg, serve, ctxDone, lnClosed, conns, nextID, wg>>

\* connections are offered to the listener in the order 1, 2, ...
NextOffered(c) == hpc[c] = "none" /\ \A d \in Conn : d < c => hpc[d] # "none"

\* Serve lines 57-79: Accept returns a connection, registerConn admits it, the
\* handler goroutine is spawned; with authentication enabled the goroutine enters
\* HandshakeServer, which sets the deadline (handshake.go lines 27-29)
AcceptAdmit(c) ==
    /\ serve = "accept"
    /\ ~lnClosed
    /\ NextOffered(c)
    /\ ~AtCapacity(Cardinality(DOMAIN conns), cfg.maxConn)
    /\ nextID' = NewID(nextID)
    /\ conns' = [i \in DOMAIN conns \cup {NewID(nextID)} |->
                    IF i = NewID(nextID) THEN c ELSE conns[i]]
    /\ wg' = wg + 1
    /\ ep' = [ep EXCEPT ![c]["a"] =
                 IF cfg.auth THEN SetDeadline(OpenEp, cfg.timeout > 0) ELSE OpenEp]
    /\ hpc' = [hpc EXCEPT ![c] = IF cfg.auth THEN "hs_read" ELSE "acquire"]
    /\ UNCHANGED <<cfg, serve, ctxDone, lnClosed, sem, herr, hs, px>>
    /\ UNCHANGED tvars

\* Serve lines 66-70: registerConn refuses, the connection is closed
AcceptReject(c) ==
    /\ serve = "accept"
    /\ ~lnClosed
    /\ NextOffered(c)
    /\ AtCapacity(Cardinality(DOMAIN conns), cfg.maxConn)
    /\ ep' = [ep EXCEPT ![c]["a"] = CloseEp(OpenEp)]
    /\ hpc' = [hpc EXCEPT ![c] = "rejected"]
    /\ UNCHANGED <<cfg, serve, ctxDone, lnClosed, conns, nextID, wg, sem, herr, hs, px>>
    /\ UNCHANGED tvars

\* Serve line 59: whether an Accept error ends the loop; errClosed says the
\* error is net.ErrClosed, cancelled that ctx.Err() is not nil
LoopEndsOnAnyError(errClosed, cancelled) == TRUE
LoopEnds(errClosed, cancelled) == errClosed \/ cancelled

\* Serve lines 58-64: Accept fails on an open listener; the loop goes on unless
\* the context is cancelled
AcceptErr ==
    /\ serve = "accept"
    /\ ~lnClosed
    /\ serve' = IF LoopEnds(FALSE, ctxDone) THEN "poolclose" ELSE serve
    /\ UNCHANGED <<cfg, ctxDone, lnClosed, conns, nextID, wg, sem, hpc, herr, hs, ep, px>>
    /\ UNCHANGED tvars

\* Serve lines 58-61: Accept fails with net.ErrClosed
AcceptClosed ==
    /\ serve = "accept"
    /\ lnClosed
    /\ serve' = IF LoopEnds(TRUE, ctxDone) THEN "poolclose" ELSE serve
    /\ UNCHANGED <<cfg, ctxDone, lnClosed, conns, nextID, wg, sem, hpc, herr, hs, ep, px>>
    /\ UNCHANGED tvars

\* the caller cancels the context it passed to Serve
Cancel ==
    /\ serve = "accept"
    /\ ~ctxDone
    /\ ctxDone' = TRUE
    /\ UNCHANGED <<cfg, serve, lnClosed, conns, nextID, wg, sem, hpc, herr, hs, ep, px>>
    /\ UNCHANGED tvars

\* the caller closes the listener (cmd/server main does so once the context is done)
CloseListener ==
    /\ serve = "accept"
    /\ ~lnClosed
    /\ lnClosed' = TRUE
    /\ UNCHANGED <<cfg, serve, ctxDone, conns, nextID, wg, sem, hpc, herr, hs, ep, px>>
    /\ UNCHANGED tvars

\* connPool.Close (deferred last in Serve, so run first): one turn of its loop
PoolCloseStep ==
    /\ serve = "poolclose"
    /\ IF sem > 0
       THEN sem' = sem - 1 /\ serve' = serve
       ELSE sem' = sem /\ serve' = "shutdown"
    /\ UNCHANGED <<cfg, ctxDone, lnClosed, conns, nextID, wg, hpc, herr, hs, ep, px>>
    /\ UNCHANGED tvars

\* Server.shutdown lines 159-164: under the lock every registered connection is
\* closed and the registry replaced by an empty map
Shutdown ==
    /\ serve = "shutdown"
    /\ ep' = [c \in Conn |-> IF Registered(c)
                             THEN [ep[c] EXCEPT !["a"] = CloseEp(@)]
                             ELSE ep[c]]
    /\ conns' = <<>>
    /\ serve' = "wait"
    /\ UNCHANGED <<cfg, ctxDone, lnClosed, nextID, wg, sem, hpc, herr, hs, px>>
    /\ UNCHANGED tvars

\* Server.shutdown line 165: wg.Wait returns
WaitDoneEarly(n) == TRUE
WaitDone(n) == n = 0

ServeReturn ==
    /\ serve = "wait"
    /\ WaitDone(wg)
    /\ serve' = "returned"
    /\ UNCHANGED <<cfg, ctxDone, lnClosed, conns, nextID, wg, sem, hpc, herr, hs, ep, px>>
    /\ UNCHANGED tvars

\* ---------------------------------------------------------------- handler
\* HandshakeServer lines 32-45, Decode having come to r: a read error or a frame
\* that is not Auth ends the handshake (the deferred SetDeadline clears the
\* deadline); an Auth frame is checked by the Authenticator
HsReadEff(c, r) ==
    LET tok == Head(ep[c]["a"].inbuf)
        isAuth == r = "data" /\ IsAuth(tok)
    IN
    /\ hpc[c] = "hs_read"
    /\ r # "block"
    /\ ep' = [ep EXCEPT ![c]["a"] =
                 IF r = "data"
                 THEN (IF isAuth THEN Consume(@) ELSE SetDeadline(Consume(@), FALSE))
                 ELSE SetDeadline(@, FALSE)]
    /\ hs' = [hs EXCEPT ![c] = IF isAuth
                               THEN (IF Authenticate(cfg.hash, Payload(tok)) THEN "pass"
                                     ELSE "reject")
                               ELSE "fail"]
    /\ herr' = [herr EXCEPT ![c] = IF isAuth THEN @
                                   ELSE IF r = "data" THEN "invalid_response"
                                   ELSE "read"]
    /\ hpc' = [hpc EXCEPT ![c] = IF isAuth THEN "hs_write" ELSE "exit"]
    /\ UNCHANGED <<sem, px>>
    /\ UNCHANGED notHandler

HsRead(c) ==
    /\ \E r \in ReadOutcomes(ep[c]["a"], TRUE) : HsReadEff(c, r)
    /\ UNCHANGED tvars

\* handleConn lines 84-88: whether the handler goes on after HandshakeServer;
\* `passed` says that the handshake returned nil
GoesOnRegardless(passed) == TRUE
GoesOn(passed) == passed

\* HandshakeServer lines 47-58, the Write having come to w: the AuthResponse
\* frame is written, then the verdict returned; the deferred SetDeadline clears
\* the deadline
HsWriteEff(c, w) ==
    LET resp == ResponseFor(hs[c] = "pass")
        passed == w = "ok" /\ Payload(resp) = "ok"
    IN
    /\ hpc[c] = "hs_write"
    /\ ep' = [ep EXCEPT ![c]["a"] =
                 IF w = "ok" THEN SetDeadline(Deliver(@, resp), FALSE)
                 ELSE SetDeadline(@, FALSE)]
    /\ hs' = [hs EXCEPT ![c] = IF passed THEN "ok" ELSE "fail"]
    /\ herr' = [herr EXCEPT ![c] = IF w # "ok" THEN "write"
                                   ELSE IF Payload(resp) = "ok" THEN @ ELSE "auth_failed"]
    /\ hpc' = [hpc EXCEPT ![c] = IF GoesOn(passed) THEN "acquire" ELSE "exit"]
    /\ UNCHANGED <<sem, px>>
    /\ UNCHANGED notHandler

HsWrite(c) ==
    /\ \E w \in WriteOutcomes(ep[c]["a"], TRUE) : HsWriteEff(c, w)
    /\ UNCHANGED tvars

\* connPool.Acquire lines 107-108: the send on sem succeeds
AcquireSlot(c) ==
    /\ hpc[c] = "acquire"
    /\ SemHasRoom(sem, PoolCap(cfg.poolSize))
    /\ sem' = sem + 1
    /\ hpc' = [hpc EXCEPT ![c] = "dial"]
    /\ UNCHANGED <<herr, hs, ep, px>>
    /\ UNCHANGED notHandler
    /\ UNCHANGED tvars

\* connPool.Acquire lines 109-110: acquireCtx, a context.WithTimeout of
\* context.Background (handleConn line 91), is done; no token was taken
AcquireCtxDone(c) ==
    /\ hpc[c] = "acquire"
    /\ herr' = [herr EXCEPT ![c] = "deadline_exceeded"]
    /\ hpc' = [hpc EXCEPT ![c] = "exit"]
    /\ UNCHANGED <<sem, hs, ep, px>>
    /\ UNCHANGED notHandler
    /\ UNCHANGED tvars

\* connPool.Acquire lines 113-119 and handleConn lines 97-107: the dial succeeds
\* (it cannot under an acquireCtx that has no time left) and proxyWithIdle starts
DialOK(c) ==
    /\ hpc[c] = "dial"
    /\ cfg.timeout > 0
    /\ ep' = [ep EXCEPT ![c] = FirstDeadline([@ EXCEPT !["b"] = OpenEp], cfg.idle)]
    /\ px' = [px EXCEPT ![c] = PxStarted(cfg.idle)]
    /\ hpc' = [hpc EXCEPT ![c] = "proxy"]
    /\ UNCHANGED <<sem, herr, hs>>
    /\ UNCHANGED notHandler
    /\ UNCHANGED tvars

\* connPool.Acquire lines 115-118: the dial fails and the token is given back
DialFail(c) ==
    /\ hpc[c] = "dial"
    /\ sem' = ReleaseToken(sem)
    /\ herr' = [herr EXCEPT ![c] = "dial"]
    /\ hpc' = [hpc EXCEPT ![c] = "exit"]
    /\ UNCHANGED <<hs, ep, px>>
    /\ UNCHANGED notHandler
    /\ UNCHANGED tvars

\* handleConn lines 107-109: proxyWithIdle has returned; connPool.Release closes
\* the upstream connection and gives the token back
Release(c) ==
    /\ hpc[c] = "proxy"
    /\ px[c].main = "ret"
    /\ ep' = [ep EXCEPT ![c]["b"] = CloseEp(@)]
    /\ sem' = ReleaseToken(sem)
    /\ herr' = [herr EXCEPT ![c] = px[c].firstErr]
    /\ hpc' = [hpc EXCEPT ![c] = "exit"]
    /\ UNCHANGED <<hs, px>>
    /\ UNCHANGED notHandler
    /\ UNCHANGED tvars

\* the goroutine ends: only whether each connection is open outlives it; the
\* returned error, the handshake verdict and the I/O history do not
Forget(e) == [NoEp EXCEPT !.st = e.st]

\* Serve lines 74-75: the goroutine's deferred unregisterConn and wg.Done
HandlerExit(c) ==
    /\ hpc[c] = "exit"
    /\ conns' = Unregister(conns, c)
    /\ wg' = wg - 1
    /\ hpc' = [hpc EXCEPT ![c] = "done"]
    /\ herr' = [herr EXCEPT ![c] = "none"]
    /\ hs' = [hs EXCEPT ![c] = "none"]
    /\ px' = [px EXCEPT ![c] = PxOff]
    /\ ep' = [ep EXCEPT ![c] = [s \in Sides |-> Forget(@[s])]]
    /\ UNCHANGED <<cfg, serve, ctxDone, lnClosed, nextID, sem>>
    /\ UNCHANGED tvars

\* ------------------------------------------------------- specifications
\* dlAt[s]: the instant of side s's deadline; next[s]: the instant of the next
\* tick of side s's ticker; last: the instant a byte last moved; lagged: a
\* goroutine that could run was kept waiting while the clock advanced
TmOff == [dlAt |-> [s \in Sides |-> 0], next |-> [s \in Sides |-> 0],
          last |-> 0, lagged |-> FALSE]

\* no HandshakeClient is at work
HcOff == [mode |-> "none", pw |-> "none", tmo |-> FALSE, pc |-> "off",
          err |-> "none", nread |-> 0, dl |-> FALSE, fin |-> FALSE]

\* no tunnel Client is at work
ClOff == [running |-> FALSE]

\* no codec call is made
PrOff == [pc |-> "off"]

\* no pool is used on its own
PqOff == [pc |-> "off"]

\* no session token is generated
TkOff == [pc |-> "off"]

\* the configurations explored: two connections at work at once (maxConn = 0
\* lifts the limit) are explored without idle timeout, with authentication on a
\* pool of one, without it on every pool size; the idle timeout and the
\* admission limit are explored together on a pool of one; a zero server
\* timeout (no handshake deadline) with authentication on a pool of one
Configs ==
    {r \in [maxConn : 0..MaxConnLimit, poolSize : 0..MaxPoolSize, auth : BOOLEAN,
            timeout : {0, 1}, idle : {0, IdleT}, hash : {HashPassword("good")}] :
        /\ r.timeout = 0 => r.auth /\ r.maxConn = 0
        /\ r.maxConn = 0 => r.idle = 0
        /\ r.auth \/ r.maxConn > 0 => r.poolSize = 1}

Init ==
    /\ cfg \in Configs
    /\ serve = "accept"
    /\ ctxDone = FALSE
    /\ lnClosed = FALSE
    /\ conns = <<>>
    /\ nextID = 0
    /\ wg = 0
    /\ sem = 0
    /\ hpc = [c \in Conn |-> "none"]
    /\ herr = [c \in Conn |-> "none"]
    /\ hs = [c \in Conn |-> "none"]
    /\ ep = [c \in Conn |-> [s \in Sides |-> NoEp]]
    /\ px = [c \in Conn |-> PxOff]
    /\ now = 0
    /\ tm = TmOff
    /\ hc = HcOff
    /\ cl = ClOff
    /\ pr = PrOff
    /\ pq = PqOff
    /\ tk = TkOff

ProxyStep(c) ==
    \/ \E s \in Sides : CopyMove(c, s)
    \/ \E s \in Sides : CopyEnd(c, s)
    \/ ProxyFinish(c)

Next ==
    \/ \E c \in Conn : AcceptAdmit(c)
    \/ \E c \in Conn : AcceptReject(c)
    \/ AcceptErr
    \/ AcceptClosed
    \/ Cancel
    \/ CloseListener
    \/ PoolCloseStep
    \/ Shutdown
    \/ ServeReturn
    \/ \E c \in Conn : HsRead(c)
    \/ \E c \in Conn : HsWrite(c)
    \/ \E c \in Conn : AcquireSlot(c)
    \/ \E c \in Conn : AcquireCtxDone(c)
    \/ \E c \in Conn : DialOK(c)
    \/ \E c \in Conn : DialFail(c)
    \/ \E c \in Conn : Release(c)
    \/ \E c \in Conn : HandlerExit(c)
    \/ \E c \in Conn : ProxyStep(c)
    \/ \E c \in Conn, s \in Sides : RefreshTick(c, s)
    \/ \E c \in Conn : \E tok \in PeerTokens : PeerSend(c, "a", tok)
    \/ \E c \in Conn : PeerSend(c, "b", "data")
    \/ \E c \in Conn, s \in Sides : PeerClose(c, s)

\* the server: Serve on a listener, its handlers, the pool and the proxies
Spec == Init /\ [][Next]_vars

\* ------------------------------------------- proxyWithIdle on its own
\* the idle timeouts a proxyWithIdle call is explored with
ProxyIdles == {-1, 0, IdleT}

\* one call proxyWithIdle(a, b, idle) on two open connections, connection 1
ProxyInit ==
    /\ cfg \in {[maxConn |-> 0, poolSize |-> 1, auth |-> FALSE, timeout |-> 1,
                 idle |-> i, hash |-> ""] : i \in ProxyIdles}
    /\ serve = "off"
    /\ ctxDone = FALSE
    /\ lnClosed = FALSE
    /\ conns = <<>>
    /\ nextID = 0
    /\ wg = 0
    /\ sem = 0
    /\ hpc = [c \in Conn |-> IF c = 1 THEN "proxy" ELSE "none"]
    /\ herr = [c \in Conn |-> "none"]
    /\ hs = [c \in Conn |-> "none"]
    /\ ep = [c \in Conn |-> IF c = 1
                            THEN FirstDeadline([s \in Sides |-> OpenEp], cfg.idle)
                            ELSE [s \in Sides |-> NoEp]]
    /\ px = [c \in Conn |-> IF c = 1 THEN PxStarted(cfg.idle) ELSE PxOff]
    /\ now = 0
    /\ tm = TmOff
    /\ hc = HcOff
    /\ cl = ClOff
    /\ pr = PrOff
    /\ pq = PqOff
    /\ tk = TkOff

\* another goroutine closes the tunnel-side connection while the proxy runs, as
\* Server.shutdown (lines 160-162) does with the connections of the registry
CloseByOwner(c) ==
    /\ px[c].main = "wait"
    /\ ep[c]["a"].st = "open"
    /\ ep' = [ep EXCEPT ![c]["a"] = CloseEp(@)]
    /\ UNCHANGED px
    /\ UNCHANGED notProxy
    /\ UNCHANGED tvars

ProxyNext ==
    \/ ProxyStep(1)
    \/ \E s \in Sides : RefreshTick(1, s)
    \/ \E s \in Sides : PeerSend(1, s, "data")
    \/ \E s \in Sides : PeerClose(1, s)
    \/ CloseByOwner(1)

ProxySpec == ProxyInit /\ [][ProxyNext]_vars

\* ------------------------------------- proxyWithIdle against a clock
\* the deadline of side s has passed
DeadlinePassed(s) == now >= tm.dlAt[s]

\* time.NewTicker(idle / 2): the ticker's period
TickerPeriod(idle) == idle \div 2

\* the call of ProxyInit at instant 0: refreshDeadline lines 43-45 have set each
\* deadline to idle from now and each ticker to idle / 2
TmStarted(idle) ==
    [dlAt |-> [s \in Sides |-> IF idle > 0 THEN idle ELSE 0],
     next |-> [s \in Sides |-> IF idle > 0 THEN TickerPeriod(idle) ELSE 0],
     last |-> 0, lagged |-> FALSE]

TimedInit ==
    /\ cfg \in {[maxConn |-> 0, poolSize |-> 1, auth |-> FALSE, timeout |-> 1,
                 idle |-> i, hash |-> ""] : i \in ProxyIdles}
    /\ serve = "off"
    /\ ctxDone = FALSE
    /\ lnClosed = FALSE
    /\ conns = <<>>
    /\ nextID = 0
    /\ wg = 0
    /\ sem = 0
    /\ hpc = [c \in Conn |-> IF c = 1 THEN "proxy" ELSE "none"]
    /\ herr = [c \in Conn |-> "none"]
    /\ hs = [c \in Conn |-> "none"]
    /\ ep = [c \in Conn |-> IF c = 1
                            THEN FirstDeadline([s \in Sides |-> OpenEp], cfg.idle)
                            ELSE [s \in Sides |-> NoEp]]
    /\ px = [c \in Conn |-> IF c = 1 THEN PxStarted(cfg.idle) ELSE PxOff]
    /\ now = 0
    /\ tm = TmStarted(cfg.idle)
    /\ hc = HcOff
    /\ cl = ClOff
    /\ pr = PrOff
    /\ pq = PqOff
    /\ tk = TkOff

\* io.Copy moves a chunk: the instant is noted
TCopyMove(s) ==
    /\ CopyMoveEff(1, s)
    /\ tm' = [tm EXCEPT !.last = now]
    /\ UNCHANGED <<now, hc, cl, pr, pq, tk>>

\* a deadline fails a read or a write only once its instant has come
TCopyEnd(s) ==
    /\ \E o \in CopyOutcomes(ep[1][s], ep[1][Other(s)],
                             DeadlinePassed(s), DeadlinePassed(Other(s))) :
          CopyEndEff(1, s, o)
    /\ UNCHANGED tvars

\* refreshDeadline lines 50-51 at a tick: the deadline becomes now + idle; ticks
\* the goroutine was late for are dropped by the ticker
TRefreshTick(s) ==
    /\ RefreshTickEff(1, s)
    /\ now >= tm.next[s]
    /\ tm' = [tm EXCEPT
                !.dlAt[s] = now + cfg.idle,
                !.next[s] = @ + TickerPeriod(cfg.idle)
                              * (((now - @) \div TickerPeriod(cfg.idle)) + 1)]
    /\ UNCHANGED <<now, hc, cl, pr, pq, tk>>

\* a goroutine of the call can take a step at this instant
Runnable ==
    \/ \E s \in Sides : px[1].rf[s] = "run" /\ now >= tm.next[s]
    \/ \E s \in Sides :
          /\ px[1].cp[s] = "run"
          /\ CopyOutcomes(ep[1][s], ep[1][Other(s)],
                          DeadlinePassed(s), DeadlinePassed(Other(s))) # {"block"}
    \/ px[1].main = "wait" /\ px[1].nrecv = 2

\* the clock advances; nothing obliges the scheduler to have run every
\* goroutine first, but a run in which it did not is marked
Tick ==
    /\ now < MaxTime
    /\ now' = now + 1
    /\ tm' = [tm EXCEPT !.lagged = @ \/ Runnable]
    /\ UNCHANGED <<hc, cl, pr, pq, tk>>
    /\ UNCHANGED bvars

TimedNext ==
    \/ \E s \in Sides : TCopyMove(s)
    \/ \E s \in Sides : TCopyEnd(s)
    \/ ProxyFinish(1)
    \/ \E s \in Sides : TRefreshTick(s)
    \/ Tick
    \/ \E s \in Sides : PeerSend(1, s, "data")
    \/ \E s \in Sides : PeerClose(1, s)
    \/ CloseByOwner(1)

TimedProxySpec == TimedInit /\ [][TimedNext]_vars

\* ------------------------------------------------- the handshake alone
\* frames an arbitrary peer may answer HandshakeClient with
Replies == {"resp_ok", "resp_invalid", "resp_OK", "data", "auth_ok"}

\* HandshakeClient line 68: the Auth frame carrying the password
AuthFrame(pw) == IF pw = "good" THEN "auth_ok" ELSE "auth_bad"

\* HandshakeClient lines 80-86: the verdict on the frame read
ClientVerdictLax(tok) ==
    IF FrameType(tok) # "AuthResponse" THEN "invalid_response" ELSE "nil"
ClientVerdict(tok) ==
    IF FrameType(tok) # "AuthResponse" THEN "invalid_response"
    ELSE IF Payload(tok) # "ok" THEN "auth_failed"
    ELSE "nil"

\* what the client's Write can come to: the deadline may have passed; a peer
\* that has closed may have answered with a reset
HcWriteOutcomes ==
    {"ok"} \cup (IF hc.dl THEN {"timeout"} ELSE {})
           \cup (IF hc.fin THEN {"ioerr"} ELSE {})

\* what the client's Decode can come to
HcReadOutcomes ==
    (IF hc.dl THEN {"timeout"} ELSE {}) \cup
    {IF hc.nread < Len(ep[1]["a"].out) THEN "data"
     ELSE IF hc.fin THEN "eof"
     ELSE "block"}

notHandshake == <<cfg, serve, ctxDone, lnClosed, conns, nextID, wg, sem, hpc, herr, hs, px, now, tm, cl, pr, pq, tk>>

\* HandshakeClient lines 68-74: the Auth frame is written; on a write error the
\* deferred SetDeadline clears the deadline and the call returns
HcWrite ==
    /\ hc.pc = "write"
    /\ \E w \in HcWriteOutcomes :
          IF w = "ok"
          THEN /\ ep' = [ep EXCEPT ![1]["a"].inbuf = Append(@, AuthFrame(hc.pw)),
                                   ![1]["a"].sent = @ + 1]
               /\ hc' = [hc EXCEPT !.pc = "read"]
          ELSE /\ ep' = ep
               /\ hc' = [hc EXCEPT !.pc = "ret", !.err = "send", !.dl = FALSE]
    /\ UNCHANGED notHandshake

\* HandshakeClient lines 76-86: one frame is read and judged
HcRead ==
    /\ hc.pc = "read"
    /\ \E r \in HcReadOutcomes :
          /\ r # "block"
          /\ hc' = IF r = "data"
                   THEN [hc EXCEPT !.pc = "ret", !.dl = FALSE, !.nread = @ + 1,
                                   !.err = ClientVerdict(ep[1]["a"].out[hc.nread + 1])]
                   ELSE [hc EXCEPT !.pc = "ret", !.dl = FALSE, !.err = "read"]
    /\ UNCHANGED ep
    /\ UNCHANGED notHandshake

\* an arbitrary peer in the server's place sends a frame
FakeReply(tok) ==
    /\ hc.mode = "client_only"
    /\ ~hc.fin
    /\ Len(ep[1]["a"].out) < MaxReplies
    /\ ep' = [ep EXCEPT ![1]["a"].out = Append(@, tok)]
    /\ UNCHANGED hc
    /\ UNCHANGED notHandshake

\* an arbitrary peer in the server's place closes the connection
FakeClose ==
    /\ hc.mode = "client_only"
    /\ ~hc.fin
    /\ hc' = [hc EXCEPT !.fin = TRUE]
    /\ UNCHANGED ep
    /\ UNCHANGED notHandshake

\* mode: which ends of the connection run the handshake; pw: the password the
\* client sends; tmo: its deadline argument is positive (lines 63-65 have then
\* set the deadline, dl); pc: write/read/ret; err: what the call returned;
\* nread: frames it has read; fin: the other end has closed
\* the two ends of connection 1: HandshakeClient and HandshakeServer as in
\* TestHandshakeSuccess ("pair"), HandshakeClient against an arbitrary peer
\* ("client_only"), HandshakeServer against an arbitrary peer ("server_only")
HandshakeModes == {"pair", "client_only", "server_only"}

HandshakeStart(hashes) ==
    /\ cfg \in {[maxConn |-> 0, poolSize |-> 1, auth |-> TRUE, timeout |-> d,
                 idle |-> 0, hash |-> h] : d \in {0, 1}, h \in hashes}
    /\ hc \in {[mode |-> m, pw |-> w, tmo |-> d, pc |-> "write", err |-> "none",
                nread |-> 0, dl |-> d, fin |-> FALSE] :
                  m \in {"pair", "client_only"}, w \in {"good", "bad"}, d \in BOOLEAN}
          \cup {[HcOff EXCEPT !.mode = "server_only"]}
    /\ serve = "off"
    /\ ctxDone = FALSE
    /\ lnClosed = FALSE
    /\ conns = <<>>
    /\ nextID = 0
    /\ wg = 0
    /\ sem = 0
    /\ hpc = [c \in Conn |-> IF c = 1 /\ hc.mode # "client_only"
                             THEN "hs_read" ELSE "none"]
    /\ herr = [c \in Conn |-> "none"]
    /\ hs = [c \in Conn |-> "none"]
    /\ ep = [c \in Conn |->
               [s \in Sides |->
                  IF c = 1 /\ s = "a"
                  THEN SetDeadline(OpenEp, hc.mode # "client_only" /\ cfg.timeout > 0)
                  ELSE NoEp]]
    /\ px = [c \in Conn |-> PxOff]
    /\ now = 0
    /\ tm = TmOff
    /\ cl = ClOff
    /\ pr = PrOff
    /\ pq = PqOff
    /\ tk = TkOff

HandshakeNext ==
    \/ HcWrite
    \/ HcRead
    \/ HsRead(1)
    \/ HsWrite(1)
    \/ \E tok \in Replies : FakeReply(tok)
    \/ FakeClose
    \/ hc.mode = "server_only" /\ \E tok \in Tokens : PeerSend(1, "a", tok)
    \/ hc.mode = "server_only" /\ PeerClose(1, "a")

\* the Authenticator holds the hash of the password "good", as in
\* TestHandshakeSuccess and TestHandshakeFailure
HandshakeInit == HandshakeStart({HashPassword("good")})

HandshakeSpec == HandshakeInit /\ [][HandshakeNext]_vars

\* what Auth.PasswordHash may hold: nothing, the hash of either password, or a
\* string that is no bcrypt hash
Hashes == {"", HashPassword("good"), HashPassword("bad"), "not_a_hash"}

\* NewServer lines 34-36: the Authenticator is made with the configured hash
AuthInit == HandshakeStart(Hashes)

\* the handshake against an Authenticator made with any of these hashes
AuthSpec == AuthInit /\ [][HandshakeNext]_vars

\* --------------------------------------------------------- the client
Starts == 1..NumStarts
Locals == 1..NumLocal

\* dialWithRetry lines 113 and 117: the defaults, in milliseconds
DefaultBackoff == 500
DefaultMaxBackoff == 5000

\* dialWithRetry lines 107-110
Attempts(maxRetries) == IF maxRetries = 0 THEN 1 ELSE maxRetries

\* dialWithRetry lines 111-114
InitialBackoff(backoffInitial) ==
    IF backoffInitial = 0 THEN DefaultBackoff ELSE backoffInitial

\* dialWithRetry lines 115-118
BackoffCap(backoffMax) == IF backoffMax = 0 THEN DefaultMaxBackoff ELSE backoffMax

\* dialWithRetry lines 133-136
NextBackoffUncapped(backoff, maxBackoff) == 2 * backoff
NextBackoff(backoff, maxBackoff) ==
    IF 2 * backoff > maxBackoff THEN maxBackoff ELSE 2 * backoff

\* dialWithRetry line 125: the attempt with index i was the last
LastAttemptOneMore(i, attempts) == i >= attempts
LastAttempt(i, attempts) == i + 1 >= attempts

\* dialWithRetry lines 128-132: what the select is woken by when the context is
\* done (the timer of time.After, for a positive wait, is not ready then);
\* "none": it blocks
WokenByTimerOnly(done) == "none"
WokenBy(done) == IF done THEN "ctx" ELSE "none"

\* Start lines 40-43: the call is refused
AlreadyRunningNever(running) == FALSE
AlreadyRunning(running) == running

\* the handler of a local connection: pc none/dial/backoff/hs/proxy/exit/done;
\* i, backoff: the variables of dialWithRetry; dials: calls of dialOnce; waits:
\* the durations passed to time.After; woke: what has woken the select; err:
\* what handleLocalConn returns; local, tunnel: the two connections
LcOff == [pc |-> "none", owner |-> 0, i |-> 0, backoff |-> 0, dials |-> 0,
          waits |-> <<>>, woke |-> "none", err |-> "none",
          local |-> "none", tunnel |-> "none"]

\* NewClient: cfg is Client.cfg; st, res, ln, wg: position, result, listener
\* and WaitGroup of each Start call; ctxDone: the context given to Start
ClNew(c) ==
    [running |-> FALSE, ctxDone |-> FALSE, cfg |-> c,
     st |-> [k \in Starts |-> "idle"], res |-> [k \in Starts |-> "none"],
     ln |-> [k \in Starts |-> "none"], wg |-> [k \in Starts |-> 0],
     lc |-> [j \in Locals |-> LcOff]]

notClient == <<cfg, serve, ctxDone, lnClosed, conns, nextID, wg, sem, hpc, herr, hs, ep, px, now, tm, hc, pr, pq, tk>>

\* Start lines 39-45: under the mutex, the running flag is tested and set
StartCheck(k) ==
    /\ cl.st[k] = "idle"
    /\ cl' = IF AlreadyRunning(cl.running)
             THEN [cl EXCEPT !.st[k] = "ret", !.res[k] = "already_running"]
             ELSE [cl EXCEPT !.st[k] = "listen", !.running = TRUE]
    /\ UNCHANGED notClient

\* Start lines 47-57: net.Listen succeeds, or fails and Start returns the error
StartListen(k) ==
    /\ cl.st[k] = "listen"
    /\ \E ok \in BOOLEAN :
          cl' = IF ok
                THEN [cl EXCEPT !.st[k] = "accept", !.ln[k] = "open"]
                ELSE [cl EXCEPT !.st[k] = "ret", !.res[k] = "listen_error"]
    /\ UNCHANGED notClient

\* local connections are offered in the order 1, 2, ...
NextLocal(j) ==
    cl.lc[j].pc = "none" /\ \A d \in Locals : d < j => cl.lc[d].pc # "none"

\* Start lines 61 and 73-79: Accept returns a connection and its handler is
\* spawned; the handler enters dialWithRetry (lines 107-118)
StartAccept(k, j) ==
    /\ cl.st[k] = "accept"
    /\ cl.ln[k] = "open"
    /\ NextLocal(j)
    /\ cl' = [cl EXCEPT
                !.wg[k] = @ + 1,
                !.lc[j] = [LcOff EXCEPT
                             !.pc = "dial", !.owner = k, !.local = "open",
                             !.backoff = InitialBackoff(cl.cfg.backoffInitial)]]
    /\ UNCHANGED notClient

\* Start lines 61-71: Accept fails; with the context done Start goes on to
\* wg.Wait, otherwise the loop continues
StartAcceptErr(k) ==
    /\ cl.st[k] = "accept"
    /\ cl' = IF cl.ctxDone THEN [cl EXCEPT !.st[k] = "wait"] ELSE cl
    /\ UNCHANGED notClient

\* Start lines 54-57: the goroutine closes the listener once the context is done
StartCloseOnCancel(k) ==
    /\ cl.ctxDone
    /\ cl.ln[k] = "open"
    /\ cl' = [cl EXCEPT !.ln[k] = "closed"]
    /\ UNCHANGED notClient

\* Start line 65: wg.Wait returns
AllDoneEarly(n) == TRUE
AllDone(n) == n = 0

\* Start lines 65-66 and 51: wg.Wait returns, Start returns nil, the deferred
\* ln.Close runs
StartWaitDone(k) ==
    /\ cl.st[k] = "wait"
    /\ AllDone(cl.wg[k])
    /\ cl' = [cl EXCEPT !.st[k] = "ret", !.res[k] = "nil", !.ln[k] = "closed"]
    /\ UNCHANGED notClient

\* the caller cancels the context given to Start: the selects waiting on
\* ctx.Done() are woken by it
ClientCancel ==
    /\ ~cl.ctxDone
    /\ cl' = [cl EXCEPT
                !.ctxDone = TRUE,
                !.lc = [j \in Locals |->
                          IF cl.lc[j].pc = "backoff" /\ cl.lc[j].woke = "none"
                          THEN [cl.lc[j] EXCEPT !.woke = WokenBy(TRUE)]
                          ELSE cl.lc[j]]]
    /\ UNCHANGED notClient

\* dialWithRetry lines 120-132: dialOnce (which fails under a context that is
\* done) succeeds and the connection is returned, or fails: after the last
\* attempt the error is returned, otherwise the select on time.After(backoff)
\* and ctx.Done() is entered
LcDial(j) ==
    LET h == cl.lc[j] IN
    /\ h.pc = "dial"
    /\ \E ok \in (IF cl.ctxDone THEN {FALSE} ELSE BOOLEAN) :
          cl' = [cl EXCEPT !.lc[j] =
                   IF ok
                   THEN [h EXCEPT !.pc = IF cl.cfg.auth THEN "hs" ELSE "proxy",
                                  !.dials = @ + 1, !.tunnel = "open"]
                   ELSE IF LastAttempt(h.i, Attempts(cl.cfg.maxRetries))
                   THEN [h EXCEPT !.pc = "exit", !.dials = @ + 1, !.err = "dial"]
                   ELSE [h EXCEPT !.pc = "backoff", !.dials = @ + 1,
                                  !.waits = Append(@, h.backoff),
                                  !.woke = WokenBy(cl.ctxDone)]]
    /\ UNCHANGED notClient

\* the timer of time.After(backoff) fires while the select is blocked
LcTimer(j) ==
    /\ cl.lc[j].pc = "backoff"
    /\ cl.lc[j].woke = "none"
    /\ cl' = [cl EXCEPT !.lc[j].woke = "timer"]
    /\ UNCHANGED notClient

\* dialWithRetry lines 128-137: the select returns; woken by the context it
\* returns ctx.Err(), woken by the timer it doubles and caps the backoff and
\* goes round the loop
LcBackoffEnd(j) ==
    LET h == cl.lc[j] IN
    /\ h.pc = "backoff"
    /\ h.woke # "none"
    /\ cl' = [cl EXCEPT !.lc[j] =
                IF h.woke = "ctx"
                THEN [h EXCEPT !.pc = "exit", !.woke = "none", !.err = "canceled"]
                ELSE [h EXCEPT !.pc = "dial", !.woke = "none", !.i = @ + 1,
                               !.backoff = NextBackoff(@, BackoffCap(cl.cfg.backoffMax))]]
    /\ UNCHANGED notClient

\* handleLocalConn lines 92-96: HandshakeClient returns nil or an error
LcHandshake(j) ==
    /\ cl.lc[j].pc = "hs"
    /\ \E ok \in BOOLEAN :
          cl' = [cl EXCEPT !.lc[j] =
                   IF ok THEN [@ EXCEPT !.pc = "proxy"]
                   ELSE [@ EXCEPT !.pc = "exit", !.err = "handshake"]]
    /\ UNCHANGED notClient

\* handleLocalConn line 103: proxyWithIdle returns, both connections closed
LcProxyEnd(j) ==
    /\ cl.lc[j].pc = "proxy"
    /\ \E e \in {"nil", "proxy"} :
          cl' = [cl EXCEPT !.lc[j] =
                   [@ EXCEPT !.pc = "exit", !.err = e,
                             !.local = "closed", !.tunnel = "closed"]]
    /\ UNCHANGED notClient

\* handleLocalConn lines 84 and 90: a deferred Close on a connection ("none":
\* the defer statement was not reached)
DeferredCloseSkipped(conn) == conn
DeferredClose(conn) == IF conn = "none" THEN conn ELSE "closed"

\* handleLocalConn lines 84 and 90, Start line 75: the deferred Close of the
\* tunnel connection (if one was dialled) and of the local connection, wg.Done
LcExit(j) ==
    LET h == cl.lc[j] IN
    /\ h.pc = "exit"
    /\ cl' = [cl EXCEPT
                !.wg[h.owner] = @ - 1,
                !.lc[j] = [h EXCEPT !.pc = "done", !.local = DeferredClose(@),
                                    !.tunnel = DeferredClose(@)]]
    /\ UNCHANGED notClient

LcStep(j) ==
    \/ LcDial(j)
    \/ LcTimer(j)
    \/ LcBackoffEnd(j)
    \/ LcHandshake(j)
    \/ LcProxyEnd(j)
    \/ LcExit(j)

\* the server's variables while only the client is at work
ServerOff ==
    /\ cfg = [maxConn |-> 0, poolSize |-> 1, auth |-> FALSE, timeout |-> 1, idle |-> 0,
              hash |-> ""]
    /\ serve = "off"
    /\ ctxDone = FALSE
    /\ lnClosed = FALSE
    /\ conns = <<>>
    /\ nextID = 0
    /\ wg = 0
    /\ sem = 0
    /\ hpc = [c \in Conn |-> "none"]
    /\ herr = [c \in Conn |-> "none"]
    /\ hs = [c \in Conn |-> "none"]
    /\ ep = [c \in Conn |-> [s \in Sides |-> NoEp]]
    /\ px = [c \in Conn |-> PxOff]
    /\ now = 0
    /\ tm = TmOff
    /\ hc = HcOff

\* the client configurations Start is explored with: no retry or MaxAttempts
\* attempts, the default backoff, authentication on or off
ClientConfigs ==
    [maxRetries : {0, MaxAttempts}, backoffInitial : {0}, backoffMax : {0},
     auth : BOOLEAN]

ClientInit ==
    /\ ServerOff
    /\ pr = PrOff
    /\ pq = PqOff
    /\ tk = TkOff
    /\ cl \in {ClNew(c) : c \in ClientConfigs}

ClientNext ==
    \/ \E k \in Starts : StartCheck(k)
    \/ \E k \in Starts : StartListen(k)
    \/ \E k \in Starts, j \in Locals : StartAccept(k, j)
    \/ \E k \in Starts : StartAcceptErr(k)
    \/ \E k \in Starts : StartCloseOnCancel(k)
    \/ \E k \in Starts : StartWaitDone(k)
    \/ ClientCancel
    \/ \E j \in Locals : LcStep(j)

\* one Client, its Start calls and the handlers of its local connections
ClientSpec == ClientInit /\ [][ClientNext]_vars

\* configured initial delays and caps, in milliseconds (0: unset)
BackoffInitials == {0, 300, 7000}
BackoffMaxes == {0, 1000}

DialConfigs ==
    [maxRetries : 0..MaxAttempts, backoffInitial : BackoffInitials,
     backoffMax : BackoffMaxes, auth : BOOLEAN]

\* one call of dialWithRetry, made by the handler of local connection 1
DialInit ==
    /\ ServerOff
    /\ pr = PrOff
    /\ pq = PqOff
    /\ tk = TkOff
    /\ cl \in {[ClNew(c) EXCEPT
                  !.running = TRUE, !.st[1] = "accept", !.ln[1] = "open",
                  !.wg[1] = 1,
                  !.lc[1] = [LcOff EXCEPT
                               !.pc = "dial", !.owner = 1, !.local = "open",
                               !.backoff = InitialBackoff(c.backoffInitial)]] :
                c \in DialConfigs}

DialNext ==
    \/ LcDial(1)
    \/ LcTimer(1)
    \/ LcBackoffEnd(1)
    \/ ClientCancel

DialSpec == DialInit /\ [][DialNext]_vars

\* --------------------------------------------- client, server, upstream
\* One local connection carried end to end.  Connection 2 is the pair of the
\* client's handler: side "a" the local connection, side "b" the tunnel
\* connection it has dialled; connection 1 is the pair of the server's handler:
\* side "a" the tunnel connection it has accepted, side "b" the upstream
\* connection.  On the tunnel, out of one end holds what that end has written
\* and sent of the other end counts what has arrived of it.

\* the chunks the local client writes, in this order, and those the upstream
\* answers with
ReqTokens == <<"req1", "req2", "req3">>
RepTokens == <<"rep1", "rep2", "rep3">>

\* HandshakeClient line 76: the frames Decode has taken from the tunnel
\* connection when the handshake returns, n being the frames it has read
FramesReadNone(n) == 0
FramesRead(n) == n

\* the local client writes its next chunk
LocalSend ==
    /\ ep[2]["a"].st = "open"
    /\ ep[2]["a"].peer = "up"
    /\ ep[2]["a"].sent < MaxMsgs
    /\ ep' = [ep EXCEPT ![2]["a"].inbuf = Append(@, ReqTokens[ep[2]["a"].sent + 1]),
                        ![2]["a"].sent = @ + 1]
    /\ UNCHANGED px
    /\ UNCHANGED notProxy
    /\ UNCHANGED tvars

\* the upstream server writes its next chunk
UpstreamSend ==
    /\ ep[1]["b"].st = "open"
    /\ ep[1]["b"].peer = "up"
    /\ ep[1]["b"].sent < MaxMsgs
    /\ ep' = [ep EXCEPT ![1]["b"].inbuf = Append(@, RepTokens[ep[1]["b"].sent + 1]),
                        ![1]["b"].sent = @ + 1]
    /\ UNCHANGED px
    /\ UNCHANGED notProxy
    /\ UNCHANGED tvars

\* the local client closes its connection, having written all it had to write
LocalClose ==
    /\ ep[2]["a"].st = "open"
    /\ ep[2]["a"].peer = "up"
    /\ ep[2]["a"].sent = MaxMsgs
    /\ ep' = [ep EXCEPT ![2]["a"].peer = "fin"]
    /\ UNCHANGED px
    /\ UNCHANGED notProxy
    /\ UNCHANGED tvars

\* what the client has written to the tunnel arrives at the server, in order
WireToServer ==
    /\ ep[2]["b"].st # "none"
    /\ ep[1]["a"].st = "open"
    /\ ep[1]["a"].sent < Len(ep[2]["b"].out)
    /\ ep' = [ep EXCEPT ![1]["a"].inbuf = Append(@, ep[2]["b"].out[ep[1]["a"].sent + 1]),
                        ![1]["a"].sent = @ + 1]
    /\ UNCHANGED px
    /\ UNCHANGED notProxy
    /\ UNCHANGED tvars

\* what the server has written to the tunnel arrives at the client, in order
WireToClient ==
    /\ ep[2]["b"].st = "open"
    /\ ep[2]["b"].sent < Len(ep[1]["a"].out)
    /\ ep' = [ep EXCEPT ![2]["b"].inbuf = Append(@, ep[1]["a"].out[ep[2]["b"].sent + 1]),
                        ![2]["b"].sent = @ + 1]
    /\ UNCHANGED px
    /\ UNCHANGED notProxy
    /\ UNCHANGED tvars

\* the close of one end of the tunnel arrives at the other end, behind the
\* bytes written before it
WireFin ==
    /\ \/ /\ ep[2]["b"].st = "closed"
          /\ ep[1]["a"].peer = "up"
          /\ ep[1]["a"].sent >= Len(ep[2]["b"].out)
          /\ ep' = [ep EXCEPT ![1]["a"].peer = "fin"]
       \/ /\ ep[1]["a"].st = "closed"
          /\ ep[2]["b"].st = "open"
          /\ ep[2]["b"].peer = "up"
          /\ ep[2]["b"].sent >= Len(ep[1]["a"].out)
          /\ ep' = [ep EXCEPT ![2]["b"].peer = "fin"]
    /\ UNCHANGED px
    /\ UNCHANGED notProxy
    /\ UNCHANGED tvars

\* handleLocalConn lines 92-103: HandshakeClient has returned nil and
\* proxyWithIdle(localConn, tunnelConn, idle) starts; the tunnel connection has
\* carried the Auth frame out and the frames HandshakeClient has read in
ClientProxyStart ==
    /\ hpc[2] = "hs"
    /\ hc.pc = "ret"
    /\ hc.err = "nil"
    /\ ep' = [ep EXCEPT ![2]["b"] = [OpenEp EXCEPT !.out = <<AuthFrame(hc.pw)>>,
                                                   !.sent = FramesRead(hc.nread)]]
    /\ px' = [px EXCEPT ![2] = PxStarted(0)]
    /\ hpc' = [hpc EXCEPT ![2] = "proxy"]
    /\ UNCHANGED <<cfg, serve, ctxDone, lnClosed, conns, nextID, wg, sem, herr, hs>>
    /\ UNCHANGED tvars

\* handleLocalConn lines 93-95, 84 and 90: HandshakeClient has failed; the
\* deferred calls close the tunnel connection and the local connection
ClientHandshakeFailed ==
    /\ hpc[2] = "hs"
    /\ hc.pc = "ret"
    /\ hc.err # "nil"
    /\ ep' = [ep EXCEPT ![2]["a"] = CloseEp(@), ![1]["a"].peer = "fin"]
    /\ hpc' = [hpc EXCEPT ![2] = "exit"]
    /\ UNCHANGED <<cfg, serve, ctxDone, lnClosed, conns, nextID, wg, sem, herr, hs, px>>
    /\ UNCHANGED tvars

\* handleLocalConn line 103: proxyWithIdle has returned
ClientProxyReturn ==
    /\ hpc[2] = "proxy"
    /\ px[2].main = "ret"
    /\ hpc' = [hpc EXCEPT ![2] = "exit"]
    /\ herr' = [herr EXCEPT ![2] = px[2].firstErr]
    /\ UNCHANGED <<cfg, serve, ctxDone, lnClosed, conns, nextID, wg, sem, hs, ep, px>>
    /\ UNCHANGED tvars

\* TestClientEndToEndEcho: authentication enabled on both sides, the matching
\* password, a timeout on both sides, no idle timeout; the local client is connected,
\* the client's handler has dialled the tunnel and enters HandshakeClient, the
\* server has accepted the tunnel connection and enters HandshakeServer
TunnelInit ==
    /\ cfg = [maxConn |-> 0, poolSize |-> 1, auth |-> TRUE, timeout |-> 1, idle |-> 0,
              hash |-> HashPassword("good")]
    /\ serve = "accept"
    /\ ctxDone = FALSE
    /\ lnClosed = FALSE
    /\ conns = <<1>>
    /\ nextID = 1
    /\ wg = 1
    /\ sem = 0
    /\ hpc = [c \in Conn |-> IF c = 1 THEN "hs_read" ELSE IF c = 2 THEN "hs" ELSE "none"]
    /\ herr = [c \in Conn |-> "none"]
    /\ hs = [c \in Conn |-> "none"]
    /\ ep = [c \in Conn |->
               [s \in Sides |->
                  IF c = 1 /\ s = "a" THEN SetDeadline(OpenEp, cfg.timeout > 0)
                  ELSE IF c = 2 /\ s = "a" THEN OpenEp
                  ELSE NoEp]]
    /\ px = [c \in Conn |-> PxOff]
    /\ now = 0
    /\ tm = TmOff
    /\ hc = [mode |-> "pair", pw |-> "good", tmo |-> TRUE, pc |-> "write",
             err |-> "none", nread |-> 0, dl |-> TRUE, fin |-> FALSE]
    /\ cl = ClOff
    /\ pr = PrOff
    /\ pq = PqOff
    /\ tk = TkOff

TunnelNext ==
    \/ LocalSend
    \/ LocalClose
    \/ UpstreamSend
    \/ HcWrite
    \/ HcRead
    \/ ClientProxyStart
    \/ ClientHandshakeFailed
    \/ ProxyStep(2)
    \/ ClientProxyReturn
    \/ WireToServer
    \/ WireToClient
    \/ WireFin
    \/ HsRead(1)
    \/ HsWrite(1)
    \/ AcquireSlot(1)
    \/ AcquireCtxDone(1)
    \/ DialOK(1)
    \/ DialFail(1)
    \/ ProxyStep(1)
    \/ Release(1)

\* a local client, the tunnel client's handler, the tunnel server's handler
\* and the upstream server
TunnelSpec == TunnelInit /\ [][TunnelNext]_vars

\* ------------------------------------------------- the pool on its own
PoolConns == 1..NumPoolConns

\* connPool.Release lines 123-129: what becomes of the connection passed in
\* ("none": nil); both branches on keep close it
CloseOnReleaseUnlessKept(conn, keep) ==
    IF conn = "none" \/ keep THEN conn ELSE "closed"
CloseOnRelease(conn, keep) == IF conn = "none" THEN conn ELSE "closed"

\* newConnPool(target, timeout, keepAlive, maxSize): sem counts the tokens in
\* the channel, of capacity PoolCap(maxSize); pos[c]: the Acquire call that is
\* to return connection c (idle/dial/got/failed); conn[c]: that connection
\* (none/open/closed); err[c]: the error that call returned (none: no error
\* yet; ctx: ctx.Err(); dial: the error of DialContext); acquired, released:
\* Acquire calls that returned a connection, Release calls made; closing:
\* none/run/done, where Close is
PqNew(maxSize) ==
    [pc |-> "on", maxSize |-> maxSize, sem |-> 0,
     pos |-> [c \in PoolConns |-> "idle"],
     conn |-> [c \in PoolConns |-> "none"],
     err |-> [c \in PoolConns |-> "none"],
     acquired |-> 0, released |-> 0, closing |-> "none"]

notPool == <<cfg, serve, ctxDone, lnClosed, conns, nextID, wg, sem, hpc, herr, hs, ep, px, now, tm, hc, cl, pr, tk>>

\* connPool.Acquire lines 107-108: the send on sem succeeds
PqAcquireSlot(c) ==
    /\ pq.pos[c] = "idle"
    /\ SemHasRoom(pq.sem, PoolCap(pq.maxSize))
    /\ pq' = [pq EXCEPT !.sem = @ + 1, !.pos[c] = "dial"]
    /\ UNCHANGED notPool

\* connPool.Acquire lines 109-110: the caller's context is done
PqAcquireCtxDone(c) ==
    /\ pq.pos[c] = "idle"
    /\ pq' = [pq EXCEPT !.pos[c] = "failed", !.err[c] = "ctx"]
    /\ UNCHANGED notPool

\* connPool.Acquire lines 113-119: the dial succeeds and the connection is
\* returned, or fails and the token is given back
PqDial(c) ==
    /\ pq.pos[c] = "dial"
    /\ \E ok \in BOOLEAN :
          pq' = IF ok
                THEN [pq EXCEPT !.pos[c] = "got", !.conn[c] = "open",
                                !.acquired = @ + 1]
                ELSE [pq EXCEPT !.pos[c] = "failed", !.err[c] = "dial",
                                !.sem = ReleaseToken(@)]
    /\ UNCHANGED notPool

\* connPool.Release(conn, keep), called with connection c as it is: nil when
\* Acquire has not returned it, open, or already closed by an earlier Release
PqRelease(c, keep) ==
    /\ pq.pc = "on"
    /\ pq.released < MaxReleases
    /\ pq' = [pq EXCEPT !.conn[c] = CloseOnRelease(@, keep),
                        !.sem = ReleaseToken(@),
                        !.released = @ + 1]
    /\ UNCHANGED notPool

\* connPool.Close lines 141-147: one turn of the loop
PqCloseStep ==
    /\ pq.pc = "on"
    /\ pq.closing # "done"
    /\ pq' = IF pq.sem > 0
             THEN [pq EXCEPT !.sem = @ - 1, !.closing = "run"]
             ELSE [pq EXCEPT !.closing = "done"]
    /\ UNCHANGED notPool

\* the maxSize values a pool is made with
PoolSizes == 0..MaxPoolSize

PoolInit ==
    /\ ServerOff
    /\ cl = ClOff
    /\ pr = PrOff
    /\ pq \in {PqNew(m) : m \in PoolSizes}
    /\ tk = TkOff

PoolNext ==
    \/ \E c \in PoolConns : PqAcquireSlot(c)
    \/ \E c \in PoolConns : PqAcquireCtxDone(c)
    \/ \E c \in PoolConns : PqDial(c)
    \/ \E c \in PoolConns, keep \in BOOLEAN : PqRelease(c, keep)
    \/ PqCloseStep

\* one connPool and the calls made on it
PoolSpec == PoolInit /\ [][PoolNext]_vars

\* ------------------------------------------------- the frame codec
\* protocol.go lines 15-19: the type tags
MsgAuth == 0
MsgAuthResponse == 1
MsgData == 2
MsgClose == 3
MsgHeartbeat == 4

\* protocol.go lines 35-36
headerSize == 5
maxPayload == 1048576

\* A []byte is kept as its sequence of runs: <<[b |-> 0, n |-> 3]>> is the
\* three bytes 0 0 0; no run is empty and neighbouring runs differ in b, so
\* that equal byte strings are equal values.
Run(b, n) == IF n = 0 THEN <<>> ELSE <<[b |-> b, n |-> n]>>

\* len(s)
RECURSIVE BLen(_)
BLen(s) == IF s = <<>> THEN 0 ELSE Head(s).n + BLen(Tail(s))

\* append(s, t...)
Cat(s, t) ==
    IF s = <<>> THEN t
    ELSE IF t = <<>> THEN s
    ELSE IF s[Len(s)].b = Head(t).b
    THEN SubSeq(s, 1, Len(s) - 1)
         \o <<[b |-> Head(t).b, n |-> s[Len(s)].n + Head(t).n]>> \o Tail(t)
    ELSE s \o t

\* s[:n], for n <= len(s)
RECURSIVE Take(_, _)
Take(s, n) ==
    IF n = 0 \/ s = <<>> THEN <<>>
    ELSE IF Head(s).n <= n THEN Cat(<<Head(s)>>, Take(Tail(s), n - Head(s).n))
    ELSE <<[b |-> Head(s).b, n |-> n]>>

\* s[n:], for n <= len(s)
RECURSIVE Drop(_, _)
Drop(s, n) ==
    IF n = 0 \/ s = <<>> THEN s
    ELSE IF Head(s).n <= n THEN Drop(Tail(s), n - Head(s).n)
    ELSE <<[b |-> Head(s).b, n |-> Head(s).n - n]>> \o Tail(s)

\* s[i], counted from 0
RECURSIVE At(_, _)
At(s, i) == IF i < Head(s).n THEN Head(s).b ELSE At(Tail(s), i - Head(s).n)

\* the []byte holding the bytes of the sequence q
RECURSIVE Lit(_)
Lit(q) == IF q = <<>> THEN <<>> ELSE Cat(Run(Head(q), 1), Lit(Tail(q)))

\* Encode line 54: binary.Write(buf, binary.BigEndian, uint32(n)), for the n
\* below 2^31 that a length can take here
PutUint32LittleEndian(n) ==
    Lit(<<n % 256, (n \div 256) % 256, (n \div 65536) % 256, (n \div 16777216) % 256>>)
PutUint32(n) ==
    Lit(<<(n \div 16777216) % 256, (n \div 65536) % 256, (n \div 256) % 256, n % 256>>)

\* Decode line 72: binary.BigEndian.Uint32(header[1:]).  The value is kept as
\* its two 16-bit halves, hi * 65536 + lo, which holds every uint32.
Uint32LittleEndian(h) ==
    [hi |-> At(h, 4) * 256 + At(h, 3), lo |-> At(h, 2) * 256 + At(h, 1)]
Uint32(h) ==
    [hi |-> At(h, 1) * 256 + At(h, 2), lo |-> At(h, 3) * 256 + At(h, 4)]

\* Encode line 49: len(msg.Payload) > maxPayload
EncodeTooLargeOffByOne(n) == n >= maxPayload
EncodeTooLarge(n) == n > maxPayload

\* Decode line 73: length > maxPayload
DecodeTooLargeOffByOne(length) ==
    \/ length.hi > maxPayload \div 65536
    \/ length.hi = maxPayload \div 65536 /\ length.lo >= maxPayload % 65536
DecodeTooLarge(length) ==
    \/ length.hi > maxPayload \div 65536
    \/ length.hi = maxPayload \div 65536 /\ length.lo > maxPayload % 65536

\* Decode line 76: make([]byte, length), for a length that is not too large
IntOf(length) == length.hi * 65536 + length.lo

\* protocol.Encode: the frame and the error
Encode(msg) ==
    IF EncodeTooLarge(BLen(msg.Payload))
    THEN [frame |-> <<>>, err |-> "ErrFrameTooLarge"]
    ELSE [frame |-> Cat(Cat(Lit(<<msg.Type>>), PutUint32(BLen(msg.Payload))),
                        msg.Payload),
          err |-> "nil"]

\* io.ReadFull(r, buf) with len(buf) = n > 0 on a stream that ends after the
\* bytes r: the bytes read, the bytes left in the stream, and the error, which
\* is io.EOF when no byte was read and io.ErrUnexpectedEOF when some were
ReadFullGreedy(r, n) ==
    IF BLen(r) >= n THEN [got |-> Take(r, n), rest |-> <<>>, err |-> "nil"]
    ELSE [got |-> r, rest |-> <<>>,
          err |-> IF r = <<>> THEN "EOF" ELSE "ErrUnexpectedEOF"]
ReadFull(r, n) ==
    IF BLen(r) >= n THEN [got |-> Take(r, n), rest |-> Drop(r, n), err |-> "nil"]
    ELSE [got |-> r, rest |-> <<>>,
          err |-> IF r = <<>> THEN "EOF" ELSE "ErrUnexpectedEOF"]

\* Decode lines 66-69 and 79-82: the error returned for a failed io.ReadFull
ReadErr(err) == IF err = "ErrUnexpectedEOF" THEN "ErrIncompleteFrame" ELSE err

NoMsg == [Type |-> -1, Payload |-> <<>>]

\* protocol.Decode on a stream that ends after the bytes r: the message (NoMsg
\* for nil), the error, and the bytes left in the stream
Decode(r) ==
    LET h == ReadFull(r, headerSize) IN
    IF h.err # "nil"
    THEN [msg |-> NoMsg, err |-> ReadErr(h.err), rest |-> h.rest]
    ELSE LET msgType == At(h.got, 0)
             length == Uint32(h.got)
         IN IF DecodeTooLarge(length)
            THEN [msg |-> NoMsg, err |-> "ErrFrameTooLarge", rest |-> h.rest]
            ELSE LET p == IF IntOf(length) > 0
                          THEN ReadFull(h.rest, IntOf(length))
                          ELSE [got |-> <<>>, rest |-> h.rest, err |-> "nil"]
                 IN IF p.err # "nil"
                    THEN [msg |-> NoMsg, err |-> ReadErr(p.err), rest |-> p.rest]
                    ELSE [msg |-> [Type |-> msgType, Payload |-> p.got],
                          err |-> "nil", rest |-> p.rest]

\* the type tags and payloads Encode is called with: the five tags and a byte
\* that is none of them; the empty payload, short ones, and payloads of
\* maxPayload - 1, maxPayload and maxPayload + 1 bytes
TypeTags == {MsgAuth, MsgAuthResponse, MsgData, MsgClose, MsgHeartbeat, 255}
Payloads ==
    {<<>>, Lit(<<104, 105>>), Lit(<<0, 0, 1, 0, 0, 0>>),
     Run(7, maxPayload - 1), Run(0, maxPayload),
     Cat(Run(255, maxPayload), Run(1, 1))}
Messages == [Type : TypeTags, Payload : Payloads]

\* bytes written to the stream by something other than Encode: a cut header, a
\* header declaring 5 bytes with two, with none; headers declaring maxPayload + 1
\* and 0x10000001 and 0xFFFFFFFF bytes with payload bytes behind them; a header
\* declaring maxPayload bytes with all of them; plain data
RawChunks ==
    {Lit(<<2, 0, 0>>),
     Lit(<<2, 0, 0, 0, 5, 104, 105>>),
     Lit(<<2, 0, 0, 0, 5>>),
     Lit(<<2, 0, 16, 0, 1, 9, 9, 9>>),
     Lit(<<2, 16, 0, 0, 1, 9, 9>>),
     Lit(<<2, 255, 255, 255, 255, 9>>),
     Cat(Lit(<<4, 0, 16, 0, 0>>), Run(0, maxPayload)),
     Lit(<<9, 9, 9>>)}

NoCall == [msg |-> NoMsg, frame |-> <<>>, err |-> "none"]

\* pc: write/read (the stream is being written, has ended and is being read);
\* enc: the last Encode call: its argument and its results; sent: what was
\* written to the stream, frame by frame and chunk by chunk; stream: the bytes
\* not yet read; got: the results of the Decode calls, with the stream each
\* was called on (from) and the number n of bytes it has taken from it
PrNew == [pc |-> "write", calls |-> 0, enc |-> NoCall, sent |-> <<>>,
          stream |-> <<>>, got |-> <<>>]

notCodec == <<cfg, serve, ctxDone, lnClosed, conns, nextID, wg, sem, hpc, herr, hs, ep, px, now, tm, hc, cl, pq, tk>>

\* Encode(msg), and the frame, if there is one, written to the stream
EncodeCall(msg) ==
    LET e == Encode(msg) IN
    /\ pr.pc = "write"
    /\ pr.calls < MaxWrites
    /\ pr' = IF e.err = "nil"
             THEN [pr EXCEPT !.calls = @ + 1,
                             !.enc = [msg |-> msg, frame |-> e.frame, err |-> e.err],
                             !.sent = Append(@, [kind |-> "frame", msg |-> msg,
                                                 bytes |-> e.frame]),
                             !.stream = Cat(@, e.frame)]
             ELSE [pr EXCEPT !.calls = @ + 1,
                             !.enc = [msg |-> msg, frame |-> e.frame, err |-> e.err]]
    /\ UNCHANGED notCodec

\* bytes that Encode did not make are written to the stream
WriteRaw(chunk) ==
    /\ pr.pc = "write"
    /\ pr.calls < MaxWrites
    /\ pr' = [pr EXCEPT !.calls = @ + 1,
                        !.sent = Append(@, [kind |-> "raw", msg |-> NoMsg,
                                            bytes |-> chunk]),
                        !.stream = Cat(@, chunk)]
    /\ UNCHANGED notCodec

\* the writer is done: the stream ends after the bytes written
EndOfStream ==
    /\ pr.pc = "write"
    /\ pr' = [pr EXCEPT !.pc = "read"]
    /\ UNCHANGED notCodec

\* Decode(r) on the stream, while no Decode has failed; at most one call more
\* than there were writes is followed
DecodeCall ==
    LET d == Decode(pr.stream) IN
    /\ pr.pc = "read"
    /\ IF pr.got = <<>> THEN TRUE ELSE pr.got[Len(pr.got)].err = "nil"
    /\ Len(pr.got) <= Len(pr.sent)
    /\ pr' = [pr EXCEPT !.stream = d.rest,
                        !.got = Append(@, [from |-> pr.stream, msg |-> d.msg,
                                           err |-> d.err,
                                           n |-> BLen(pr.stream) - BLen(d.rest)])]
    /\ UNCHANGED notCodec

CodecInit ==
    /\ ServerOff
    /\ cl = ClOff
    /\ pr = PrNew
    /\ pq = PqOff
    /\ tk = TkOff

CodecNext ==
    \/ \E msg \in Messages : EncodeCall(msg)
    \/ \E chunk \in RawChunks : WriteRaw(chunk)
    \/ EndOfStream
    \/ DecodeCall

\* Encode and Decode on one stream
CodecSpec == CodecInit /\ [][CodecNext]_vars

\* ----------------------------------------------------------- properties
\* upstream connections Acquire has returned and Release has not yet taken back
Outstanding == {c \in Conn : hpc[c] = "proxy"}

BothClosed(c) == ep[c]["a"].st = "closed" /\ ep[c]["b"].st = "closed"

\* C1: in proxyWithIdle, once either copy direction has ended the call goes on
\* by itself to close both connections and return, for every idle timeout and
\* whatever the peers do: while the call has not returned, one of its
\* goroutines can take a step
C1_FirstEndTearsDown ==
    \A c \in Conn :
        (px[c].main = "wait" /\ px[c].nrecv >= 1) => ENABLED ProxyStep(c)

\* C2: with idle timeout T > 0 and every goroutine run on time, a pair on which
\* no byte has moved for longer than T plus the margin has been closed and the
\* call has returned
C2_IdleClosesWithinMargin ==
    (cfg.idle > 0 /\ ~tm.lagged /\ now - tm.last > cfg.idle + IdleMargin)
        => (px[1].main = "ret" /\ BothClosed(1))

\* C3: once proxyWithIdle has returned both connections of the pair are closed,
\* whatever the outcome
C3_ReturnedBothClosed ==
    \A c \in Conn : px[c].main = "ret" => BothClosed(c)

C3_Witness ==
    /\ px[1].main = "ret"
    /\ px[1].firstErr = "timeout"
    /\ BothClosed(1)

\* C4: while only Acquire and Release are invoked on the pool (Serve is in its
\* accept loop), at most PoolCap(size) connections are outstanding, and an
\* Acquire waiting while that many are outstanding either keeps waiting or
\* returns the error of its context without a connection and without a token
C4_PoolBound ==
    /\ [](serve = "accept" => Cardinality(Outstanding) <= PoolCap(cfg.poolSize))
    /\ [][\A c \in Conn :
            (/\ serve = "accept"
             /\ hpc[c] = "acquire"
             /\ Cardinality(Outstanding) >= PoolCap(cfg.poolSize))
            => \/ hpc'[c] = "acquire"
               \/ /\ hpc'[c] = "exit"
                  /\ herr'[c] = "deadline_exceeded"
                  /\ sem' = sem
                  /\ ep'[c]["b"] = NoEp]_vars

C4_Witness ==
    /\ serve = "accept"
    /\ cfg.poolSize <= 0
    /\ Cardinality(Outstanding) = PoolCap(cfg.poolSize)
    /\ \E c \in Conn : hpc[c] = "acquire"

\* C5: in every state of a Serve call, shutdown included, the upstream
\* connections obtained from the pool and not yet released number at most the
\* pool's size
C5_OutstandingWithinPool ==
    Cardinality(Outstanding) <= PoolCap(cfg.poolSize)

\* C6: with authentication enabled, a handler whose HandshakeServer has not
\* returned success holds no pool slot, waits for none, has dialled no upstream
\* and has copied no byte either way
C6_HandshakeFirst ==
    \A c \in Conn :
        (cfg.auth /\ Live(c) /\ hs[c] # "ok")
        => /\ hpc[c] \in {"hs_read", "hs_write", "exit"}
           /\ ep[c]["b"] = NoEp
           /\ px[c] = PxOff
           /\ \A i \in DOMAIN ep[c]["a"].out : ep[c]["a"].out[i] # "data"

C6_Witness ==
    /\ cfg.auth
    /\ \E c \in Conn :
          /\ hs[c] = "ok"
          /\ hpc[c] = "proxy"
          /\ ep[c]["a"].out = <<"resp_ok", "data">>
    /\ \E d \in Conn :
          /\ hs[d] = "fail"
          /\ herr[d] = "auth_failed"
          /\ hpc[d] = "exit"

\* C7: every tunnel-side connection Serve accepted is closed once its handling
\* has ended (rejected, or its handler finished), and none is open when Serve
\* has returned
C7_AcceptedConnsClosed ==
    /\ \A c \in Conn : hpc[c] \in {"rejected", "done"} => ep[c]["a"].st = "closed"
    /\ serve = "returned" => \A c \in Conn : hpc[c] # "none" => ep[c]["a"].st = "closed"

\* C8: once Serve has left its accept loop and run shutdown, the registry is
\* empty and the tunnel-side connection of every handler still running is
\* closed; once Serve has returned no handler is running
C8_ShutdownComplete ==
    /\ serve \in {"wait", "returned"}
       => /\ DOMAIN conns = {}
          /\ \A c \in Conn : Live(c) => ep[c]["a"].st = "closed"
    /\ serve = "returned" => /\ wg = 0
                             /\ \A c \in Conn : ~Live(c)

C8_Witness ==
    /\ serve = "returned"
    /\ nextID = NumConns
    /\ \A c \in Conn : hpc[c] = "done"

\* C9: with max_connections = M > 0 the registry holds at most M connections; a
\* connection accepted while it holds M is closed at once, not registered, given
\* no handler and no handshake I/O, and the accept loop goes on
C9_AdmissionControl ==
    /\ [](cfg.maxConn > 0 =>
            /\ Cardinality(DOMAIN conns) <= cfg.maxConn
            /\ \A c \in Conn :
                  hpc[c] = "rejected"
                  => /\ ep[c]["a"].st = "closed"
                     /\ ~Registered(c)
                     /\ NumRead(ep[c]["a"]) = 0
                     /\ ep[c]["a"].out = <<>>
                     /\ hs[c] = "none")
    /\ [][\A c \in Conn :
            (/\ cfg.maxConn > 0
             /\ Cardinality(DOMAIN conns) >= cfg.maxConn
             /\ hpc[c] = "none"
             /\ hpc'[c] # "none")
            => /\ hpc'[c] = "rejected"
               /\ ep'[c]["a"].st = "closed"
               /\ conns' = conns
               /\ wg' = wg
               /\ serve' = "accept"]_vars

C9_Witness ==
    /\ cfg.maxConn > 0
    /\ serve = "accept"
    /\ ~lnClosed
    /\ Cardinality(DOMAIN conns) = cfg.maxConn
    /\ \E c \in Conn : hpc[c] = "rejected" /\ ep[c]["a"].st = "closed"

\* C10: once the context of Serve is cancelled, a handler waiting in Acquire
\* for a slot leaves the wait only by returning the cancellation error
C10_CancelEndsAcquire ==
    [][\A c \in Conn :
         (ctxDone /\ hpc[c] = "acquire")
         => \/ hpc'[c] = "acquire"
            \/ hpc'[c] = "exit" /\ herr'[c] = "canceled"]_vars

\* a step the server takes by itself: Serve past its Accept, the goroutine of
\* cmd/server that closes the listener once the context is done, or a handler;
\* nothing a peer or the caller does
ServerStep ==
    \/ ctxDone /\ CloseListener
    \/ AcceptClosed
    \/ PoolCloseStep
    \/ Shutdown
    \/ ServeReturn
    \/ \E c \in Conn :
          \/ HsRead(c) \/ HsWrite(c)
          \/ AcquireSlot(c) \/ AcquireCtxDone(c)
          \/ DialOK(c) \/ DialFail(c)
          \/ Release(c) \/ HandlerExit(c)
          \/ ProxyStep(c)

\* C11: once the context of Serve is cancelled or the listener is closed, Serve
\* goes on by itself until it has returned: as long as it has not, the server
\* has a step to take (Serve returns nothing but nil)
C11_ServeGoesOnToReturn ==
    ((ctxDone \/ lnClosed) /\ serve # "returned") => ENABLED ServerStep

\* the handler of connection c returns an error in this step
HandlerFails(c) ==
    /\ hpc[c] # "exit"
    /\ hpc'[c] = "exit"
    /\ herr'[c] \notin {"none", "nil"}

\* C12: a handshake, pool-acquire or proxy failure of one connection, and any
\* step taken while the context is not cancelled and the listener is open,
\* leaves Serve in its accept loop; the failure and the handler's exit leave
\* the registry entries and the sessions of other connections as they were;
\* and the loop takes the next connection offered
C12_FailuresStayLocal ==
    /\ [][\A c \in Conn :
            HandlerFails(c)
            => /\ serve' = serve
               /\ conns' = conns
               /\ wg' = wg
               /\ \A d \in Conn \ {c} :
                     /\ hpc'[d] = hpc[d]
                     /\ hs'[d] = hs[d]
                     /\ ep'[d] = ep[d]
                     /\ px'[d] = px[d]]_vars
    /\ [][\A c \in Conn :
            (hpc[c] = "exit" /\ hpc'[c] = "done")
            => /\ serve' = serve
               /\ \A i \in DOMAIN conns :
                     conns[i] # c => i \in DOMAIN conns' /\ conns'[i] = conns[i]]_vars
    /\ [][(serve = "accept" /\ ~ctxDone /\ ~lnClosed) => serve' = "accept"]_vars
    /\ [](\A c \in Conn :
            (serve = "accept" /\ ~lnClosed /\ NextOffered(c))
            => ENABLED (AcceptAdmit(c) \/ AcceptReject(c)))

C12_Witness ==
    /\ serve = "accept"
    /\ ~ctxDone
    /\ ~lnClosed
    /\ hpc[1] = "exit"
    /\ herr[1] = "auth_failed"
    /\ hpc[2] = "proxy"
    /\ Registered(2)

\* HandshakeClient has returned something other than a read or write error
ClientJudged == hc.pc = "ret" /\ hc.err \notin {"send", "read"}

\* HandshakeServer has returned something other than a read or write error
ServerJudged == hpc[1] \in {"acquire", "exit"} /\ herr[1] \notin {"read", "write"}

HandshakeStep == HcWrite \/ HcRead \/ HsRead(1) \/ HsWrite(1)

\* C13: HandshakeClient with the matching password and HandshakeServer on one
\* connection: neither blocks the other, each returns success unless a
\* deadline cut its I/O short (which cannot happen when no deadline is set),
\* and the frames exchanged are one Auth frame and one AuthResponse "ok"
C13_MatchingPairSucceeds ==
    (hc.mode = "pair" /\ hc.pw = "good")
    => /\ ep[1]["a"].sent <= 1
       /\ Len(ep[1]["a"].out) <= 1
       /\ ClientJudged
          => /\ hc.err = "nil"
             /\ ep[1]["a"].sent = 1
             /\ hc.nread = 1
             /\ ep[1]["a"].out = <<"resp_ok">>
       /\ ServerJudged
          => /\ hpc[1] = "acquire"
             /\ herr[1] = "none"
             /\ hs[1] = "ok"
             /\ NumRead(ep[1]["a"]) = 1
             /\ ep[1]["a"].out = <<"resp_ok">>
       /\ (~hc.tmo /\ cfg.timeout = 0)
          => /\ hc.err \in {"none", "nil"}
             /\ herr[1] = "none"
       /\ (/\ ~(hc.pc = "ret" /\ hpc[1] \in {"acquire", "exit"})
           /\ hc.err \notin {"send", "read"}
           /\ herr[1] \notin {"read", "write"})
          => ENABLED HandshakeStep

C13_Witness ==
    /\ hc.mode = "pair"
    /\ hc.pw = "good"
    /\ hc.pc = "ret"
    /\ hc.err = "nil"
    /\ hpc[1] = "acquire"
    /\ hs[1] = "ok"

\* C14: with a password that does not match, neither side ever returns
\* success; HandshakeServer has written exactly one AuthResponse frame whose
\* payload is not "ok" when it returns ErrAuthFailed, and HandshakeClient,
\* having read it, returns ErrAuthFailed
C14_MismatchRejected ==
    (hc.mode = "pair" /\ hc.pw = "bad")
    => /\ hc.err # "nil"
       /\ hpc[1] # "acquire"
       /\ hs[1] # "ok"
       /\ Len(ep[1]["a"].out) <= 1
       /\ ServerJudged
          => /\ herr[1] = "auth_failed"
             /\ Len(ep[1]["a"].out) = 1
             /\ FrameType(ep[1]["a"].out[1]) = "AuthResponse"
             /\ Payload(ep[1]["a"].out[1]) # "ok"
       /\ ClientJudged => hc.err = "auth_failed"

C14_Witness ==
    /\ hc.mode = "pair"
    /\ hc.pw = "bad"
    /\ herr[1] = "auth_failed"
    /\ hc.pc = "ret"
    /\ hc.err = "auth_failed"

\* C15: when the first frame HandshakeServer reads is not an Auth frame it
\* returns ErrInvalidResponse without a verdict of the Authenticator and
\* without having written anything, then and ever after
C15_NonAuthFirstFrame ==
    /\ [](herr[1] = "invalid_response"
            => /\ hpc[1] = "exit"
               /\ hs[1] = "fail"
               /\ NumRead(ep[1]["a"]) = 1
               /\ ep[1]["a"].out = <<>>)
    /\ [][(/\ hpc[1] = "hs_read"
           /\ NumRead(ep'[1]["a"]) = NumRead(ep[1]["a"]) + 1
           /\ FrameType(Head(ep[1]["a"].inbuf)) # "Auth")
          => /\ herr'[1] = "invalid_response"
             /\ hpc'[1] = "exit"
             /\ hs[1] = "none"
             /\ hs'[1] = "fail"
             /\ ep'[1]["a"].out = <<>>]_vars

C15_Witness ==
    /\ hc.mode = "server_only"
    /\ herr[1] = "invalid_response"
    /\ ep[1]["a"].sent = 1
    /\ ep[1]["a"].inbuf = <<>>

\* C16: HandshakeClient sends one Auth frame carrying the password, none
\* before returning a write error, and reads at most one frame; having read
\* one it returns ErrInvalidResponse if the frame is no AuthResponse,
\* ErrAuthFailed if it is one with a payload other than "ok", nil otherwise
C16_ClientVerdict ==
    hc.mode \in {"pair", "client_only"}
    => /\ ep[1]["a"].sent = (IF hc.pc = "write" \/ hc.err = "send" THEN 0 ELSE 1)
       /\ hc.nread = (IF ClientJudged THEN 1 ELSE 0)
       /\ (hc.mode = "client_only" /\ ep[1]["a"].sent = 1)
          => /\ Len(ep[1]["a"].inbuf) = 1
             /\ FrameType(ep[1]["a"].inbuf[1]) = "Auth"
             /\ Payload(ep[1]["a"].inbuf[1]) = hc.pw
       /\ ClientJudged
          => LET tok == ep[1]["a"].out[1] IN
             /\ hc.err = "invalid_response" <=> FrameType(tok) # "AuthResponse"
             /\ hc.err = "auth_failed"
                  <=> (FrameType(tok) = "AuthResponse" /\ Payload(tok) # "ok")
             /\ hc.err = "nil"
                  <=> (FrameType(tok) = "AuthResponse" /\ Payload(tok) = "ok")

C16_Witness ==
    /\ hc.mode = "client_only"
    /\ hc.pc = "ret"
    /\ hc.err = "auth_failed"
    /\ ep[1]["a"].out = <<"resp_OK", "resp_ok">>

\* the Start call k is past the test of the running flag and has not returned
InProgress(k) == cl.st[k] \in {"listen", "accept", "wait"}

\* C17: a Start call made while another is in progress returns "already
\* running" in one step that changes nothing else: no listener of its own, and
\* the running flag, the listener, the WaitGroup and the handlers of the call
\* in progress as they were
C17_SecondStartRefused ==
    /\ [][\A k \in Starts :
            (/\ cl.st[k] = "idle"
             /\ cl'.st[k] # "idle"
             /\ \E k2 \in Starts \ {k} : InProgress(k2))
            => cl' = [cl EXCEPT !.st[k] = "ret", !.res[k] = "already_running"]]_vars
    /\ [](\A k \in Starts :
            cl.res[k] = "already_running"
            => /\ cl.st[k] = "ret"
               /\ cl.ln[k] = "none"
               /\ cl.wg[k] = 0
               /\ \A j \in Locals : cl.lc[j].owner # k)

C17_Witness ==
    /\ cl.res[2] = "already_running"
    /\ cl.running
    /\ cl.st[1] = "accept"
    /\ cl.ln[1] = "open"
    /\ cl.lc[1].pc = "proxy"

\* C18: dialWithRetry never makes more dial attempts than the configured
\* maximum (one when it is 0); when it returns the dial error it has made
\* exactly that many, with one wait between two attempts; without cancellation
\* it returns no other error; when an attempt succeeds the connection is
\* returned at once, after as many waits as failed attempts, and no attempt or
\* wait follows
C18_AttemptsAndWaits ==
    /\ [](\A j \in Locals :
            LET h == cl.lc[j]
                n == IF cl.cfg.maxRetries = 0 THEN 1 ELSE cl.cfg.maxRetries
            IN  h.pc # "none"
                => /\ h.dials <= n
                   /\ Len(h.waits) <= n - 1
                   /\ h.err = "dial"
                      => h.dials = n /\ Len(h.waits) = n - 1 /\ h.tunnel = "none"
                   /\ (~cl.ctxDone /\ h.pc = "exit" /\ h.tunnel = "none")
                      => h.err = "dial"
                   /\ h.tunnel # "none"
                      => h.pc \notin {"dial", "backoff"} /\ Len(h.waits) = h.dials - 1)
    /\ [][\A j \in Locals :
            cl.lc[j].tunnel # "none"
            => /\ cl'.lc[j].dials = cl.lc[j].dials
               /\ cl'.lc[j].waits = cl.lc[j].waits]_vars

C18_Witness ==
    /\ ~cl.ctxDone
    /\ cl.cfg.maxRetries = MaxAttempts
    /\ cl.lc[1].pc = "exit"
    /\ cl.lc[1].err = "dial"
    /\ cl.lc[1].dials = MaxAttempts
    /\ Len(cl.lc[1].waits) = MaxAttempts - 1

\* C19: no wait of dialWithRetry is longer than the configured cap (the
\* default when unset)
C19_WaitsWithinCap ==
    \A j \in Locals :
        \A n \in DOMAIN cl.lc[j].waits :
            cl.lc[j].waits[n] <= BackoffCap(cl.cfg.backoffMax)

\* C20: a cancellation during a backoff wait whose timer has not fired wakes
\* the select; a select woken by the context has its return at hand, and
\* returns the cancellation error without another dial attempt
C20_CancelEndsBackoff ==
    /\ [][\A j \in Locals :
            (/\ cl.lc[j].pc = "backoff"
             /\ cl.lc[j].woke = "none"
             /\ ~cl.ctxDone
             /\ cl'.ctxDone)
            => cl'.lc[j].woke = "ctx"]_vars
    /\ [][\A j \in Locals :
            (cl.lc[j].pc = "backoff" /\ cl.lc[j].woke = "ctx")
            => \/ cl'.lc[j] = cl.lc[j]
               \/ /\ cl'.lc[j].pc = "exit"
                  /\ cl'.lc[j].err = "canceled"
                  /\ cl'.lc[j].dials = cl.lc[j].dials
                  /\ cl'.lc[j].waits = cl.lc[j].waits
                  /\ cl'.lc[j].tunnel = "none"]_vars
    /\ [](\A j \in Locals :
            (cl.lc[j].pc = "backoff" /\ cl.lc[j].woke = "ctx")
            => ENABLED LcBackoffEnd(j))

C20_Witness ==
    /\ cl.ctxDone
    /\ cl.cfg.maxRetries = MaxAttempts
    /\ cl.lc[1].pc = "exit"
    /\ cl.lc[1].err = "canceled"
    /\ cl.lc[1].dials = 1
    /\ cl.lc[1].tunnel = "none"

\* the step accepts a local connection
AcceptsLocal == \E j \in Locals : cl.lc[j].pc = "none" /\ cl'.lc[j].pc # "none"

\* C21: a handler that has ended, whatever for, has closed its local connection
\* and the tunnel connection if one was dialled; its steps change neither the
\* other handlers nor the Start call and its listener, which goes on accepting.
C21_HandlerFailureConfined ==
    [][/\ \A j \in Locals :
             cl'.lc[j].pc = "done" =>
                 /\ cl'.lc[j].local = "closed"
                 /\ cl'.lc[j].tunnel \in {"none", "closed"}
                 /\ cl'.lc[j].err \in {"handshake", "proxy", "nil"} =>
                       cl'.lc[j].tunnel = "closed"
                 /\ cl'.lc[j].err \in {"dial", "canceled"} <=>
                       cl'.lc[j].tunnel = "none"
       /\ \A j \in Locals :
             LcStep(j) =>
                 /\ \A i \in Locals \ {j} : cl'.lc[i] = cl.lc[i]
                 /\ cl'.st = cl.st /\ cl'.ln = cl.ln /\ cl'.res = cl.res
                 /\ cl'.running = cl.running
       /\ \A k \in Starts, j \in Locals :
             cl.st[k] = "accept" /\ cl.ln[k] = "open" /\ NextLocal(j) =>
                 ENABLED StartAccept(k, j)
      ]_vars

\* the first connection's handler has ended on a failed handshake with both
\* its connections closed, and the second connection, accepted by the same
\* Start call, is being proxied
C21_Witness ==
    /\ cl.running
    /\ cl.lc[1].pc = "done"
    /\ cl.lc[1].err = "handshake"
    /\ cl.lc[1].local = "closed"
    /\ cl.lc[1].tunnel = "closed"
    /\ cl.lc[2].pc = "proxy"
    /\ \E k \in Starts : cl.st[k] = "accept" /\ cl.ln[k] = "open"

\* C22 as stated: from the moment the cancellation signal has fired no further
\* local connection is accepted.
C22_NoAcceptAfterCancel ==
    [][cl.running /\ cl.ctxDone => ~AcceptsLocal]_vars

\* C22: once the cancellation signal has fired the listener of the Start call
\* can be closed, and is closed before Start returns; once it is closed no
\* further local connection is accepted (one may be accepted between the
\* signal and the close); Start returns nil only after the signal, with every
\* handler it has started finished.
C22_CancelStopsAccepting ==
    [][/\ \A k \in Starts :
             cl.ctxDone /\ cl.ln[k] = "open" => ENABLED StartCloseOnCancel(k)
       /\ cl.running /\ (\A k \in Starts : cl.ln[k] # "open") => ~AcceptsLocal
       /\ \A k \in Starts :
             cl.st[k] = "wait" => cl.ctxDone /\ ~AcceptsLocal
       /\ \A k \in Starts :
             cl'.res[k] = "nil" =>
                 /\ cl'.ctxDone
                 /\ cl'.ln[k] = "closed"
                 /\ cl'.wg[k] = 0
                 /\ \A j \in Locals :
                       cl'.lc[j].owner = k => cl'.lc[j].pc = "done"
      ]_vars

\* Start has returned nil after cancellation with both its handlers finished,
\* one of them cut short in its backoff wait by the signal
C22_Witness ==
    \E k \in Starts :
        /\ cl.res[k] = "nil"
        /\ cl.ctxDone
        /\ \A j \in Locals : cl.lc[j].owner = k /\ cl.lc[j].pc = "done"
        /\ cl.lc[1].err \in {"nil", "proxy"}
        /\ cl.lc[2].err = "canceled"

\* q holds the first chunks of the sequence all, in order and unchanged
IsPrefix(q, all) ==
    /\ Len(q) <= Len(all)
    /\ \A i \in 1..Len(q) : q[i] = all[i]

\* what lies between the local client and the upstream can move on
Forward ==
    \/ CopyMove(2, "a")
    \/ WireToServer
    \/ CopyMove(1, "a")

\* what lies between the upstream and the local client can move on
Backward ==
    \/ CopyMove(1, "b")
    \/ WireToClient
    \/ CopyMove(2, "b")

\* both proxies are at work on open connections with no end closed
Connected ==
    /\ \A c \in {1, 2} :
          /\ hpc[c] = "proxy"
          /\ px[c].main = "wait"
          /\ \A t \in Sides : px[c].cp[t] = "run" /\ ep[c][t].st = "open"
                              /\ ep[c][t].peer = "up"

\* C23: with authentication enabled and the matching password, what the
\* upstream receives is what the local client wrote, unchanged and in order,
\* and what the local client receives is what the upstream wrote; no handshake
\* frame is delivered to either; and while client and server are connected
\* whatever has not yet arrived can move on.
C23_EndToEnd ==
    /\ IsPrefix(ep[1]["b"].out, SubSeq(ReqTokens, 1, ep[2]["a"].sent))
    /\ IsPrefix(ep[2]["a"].out, SubSeq(RepTokens, 1, ep[1]["b"].sent))
    /\ \A i \in 1..Len(ep[1]["b"].out) : FrameType(ep[1]["b"].out[i]) = "Data"
    /\ \A i \in 1..Len(ep[2]["a"].out) : FrameType(ep[2]["a"].out[i]) = "Data"
    /\ Connected /\ Len(ep[1]["b"].out) < ep[2]["a"].sent => ENABLED Forward
    /\ Connected /\ Len(ep[2]["a"].out) < ep[1]["b"].sent => ENABLED Backward

\* everything the local client wrote has reached the upstream and everything
\* the upstream wrote has reached the local client
C23_Witness ==
    /\ hs[1] = "ok"
    /\ ep[2]["a"].sent = MaxMsgs
    /\ ep[1]["b"].sent = MaxMsgs
    /\ ep[1]["b"].out = SubSeq(ReqTokens, 1, MaxMsgs)
    /\ ep[2]["a"].out = SubSeq(RepTokens, 1, MaxMsgs)

\* the step is a call of connPool.Release
IsRelease == pq.pc = "on" /\ pq'.released = pq.released + 1

\* C24: Release closes the connection it is given whatever keep is, frees
\* exactly one slot when one is held and leaves the count at zero otherwise -
\* also when called more often than Acquire succeeded or after Close has
\* drained the pool - and never blocks: it can be called in every state.
C24_ReleaseNeverBlocks ==
    [][/\ IsRelease =>
             /\ \A c \in PoolConns :
                   /\ pq'.conn[c] # pq.conn[c] => pq'.conn[c] = "closed"
                   /\ pq.conn[c] = "closed" => pq'.conn[c] = "closed"
             /\ pq'.sem = IF pq.sem > 0 THEN pq.sem - 1 ELSE 0
             /\ pq'.pos = pq.pos
       /\ pq.pc = "on" /\ pq.released < MaxReleases =>
             \A c \in PoolConns, keep \in BOOLEAN :
                 /\ ENABLED PqRelease(c, keep)
                 /\ PqRelease(c, keep) /\ pq.conn[c] # "none" =>
                       pq'.conn[c] = "closed"
      ]_vars

\* Release was called more often than Acquire succeeded, after Close has run,
\* and the open connection it was given is closed
C24_Witness ==
    /\ pq.pc = "on"
    /\ pq.closing = "done"
    /\ pq.released > pq.acquired
    /\ pq.acquired > 0
    /\ pq.sem = 0
    /\ \A c \in PoolConns : pq.pos[c] = "got" => pq.conn[c] = "closed"
    /\ \E c \in PoolConns : pq.pos[c] = "got"

\* the first k things written to the stream are frames made by Encode
FramesOnly(k) == \A i \in 1..k : pr.sent[i].kind = "frame"

\* the bytes of what was written after the first k writes
RECURSIVE Written(_)
Written(k) ==
    IF k >= Len(pr.sent) THEN <<>>
    ELSE Cat(pr.sent[k + 1].bytes, Written(k + 1))

\* C25: for a message of any type tag whose payload has at most 1 MiB, Decode
\* applied to the bytes Encode produced returns the same type and payload: for
\* the last message encoded, and for a frame written first to the stream and
\* then read from it.
C25_RoundTrip ==
    /\ pr.enc.err # "none" /\ BLen(pr.enc.msg.Payload) <= 1048576 =>
          /\ pr.enc.err = "nil"
          /\ Decode(pr.enc.frame).err = "nil"
          /\ Decode(pr.enc.frame).msg = pr.enc.msg
          /\ Decode(pr.enc.frame).rest = <<>>
    /\ pr.got # <<>> /\ pr.sent # <<>> /\ FramesOnly(1) =>
          /\ pr.got[1].err = "nil"
          /\ pr.got[1].msg.Type = pr.sent[1].msg.Type
          /\ pr.got[1].msg.Payload = pr.sent[1].msg.Payload

\* a payload of exactly 1 MiB under a type tag that is none of the five has
\* made the round trip through the stream
C25_Witness ==
    /\ pr.got # <<>>
    /\ pr.sent # <<>>
    /\ FramesOnly(1)
    /\ pr.sent[1].msg.Type = 255
    /\ BLen(pr.sent[1].msg.Payload) = 1048576
    /\ pr.got[1].msg = pr.sent[1].msg

\* C26: a Decode that finds the stream ended before the header or the declared
\* payload was read in full - the only way it fails here other than on a length
\* that is too large - returns no message and fails with ErrIncompleteFrame.
C26_ShortStreamIncomplete ==
    \A i \in 1..Len(pr.got) :
        LET g == pr.got[i]
            short == \/ BLen(g.from) < headerSize
                     \/ /\ ~DecodeTooLarge(Uint32(g.from))
                        /\ BLen(g.from) < headerSize + IntOf(Uint32(g.from))
        IN short => g.msg = NoMsg /\ g.err = "ErrIncompleteFrame"

\* C27: Encode fails with ErrFrameTooLarge exactly when the payload is longer
\* than 1,048,576 bytes, and in no other way.
C27_EncodeLimit ==
    pr.enc.err # "none" =>
        /\ pr.enc.err \in {"nil", "ErrFrameTooLarge"}
        /\ pr.enc.err = "ErrFrameTooLarge" <=> BLen(pr.enc.msg.Payload) > 1048576
        /\ BLen(pr.enc.msg.Payload) = 1048576 => pr.enc.err = "nil"
        /\ BLen(pr.enc.msg.Payload) = 1048577 => pr.enc.err = "ErrFrameTooLarge"

\* a payload of exactly 1,048,576 bytes was encoded
C27_Witness ==
    /\ pr.enc.err = "nil"
    /\ BLen(pr.enc.msg.Payload) = 1048576
    /\ BLen(pr.enc.frame) = 1048581

\* the length a complete header declares is above 1,048,576 (0x00100000)
DeclaresOver(r) ==
    \/ At(r, 1) > 0
    \/ At(r, 2) > 16
    \/ At(r, 2) = 16 /\ (At(r, 3) > 0 \/ At(r, 4) > 0)

\* the length a complete header declares is exactly 1,048,576
DeclaresLimit(r) ==
    At(r, 1) = 0 /\ At(r, 2) = 16 /\ At(r, 3) = 0 /\ At(r, 4) = 0

\* C28: Decode of a header declaring more than 1,048,576 bytes fails with
\* ErrFrameTooLarge having taken exactly the 5 header bytes from the stream, so
\* that what follows the header is still there; a header declaring exactly
\* 1,048,576 bytes, followed by them, is accepted.
C28_DecodeLimit ==
    \A i \in 1..Len(pr.got) :
        LET g == pr.got[i] IN
        BLen(g.from) >= 5 =>
            /\ DeclaresOver(g.from) =>
                  /\ g.err = "ErrFrameTooLarge"
                  /\ g.msg = NoMsg
                  /\ g.n = 5
                  /\ (IF i = Len(pr.got) THEN pr.stream ELSE pr.got[i + 1].from)
                        = Drop(g.from, 5)
            /\ g.err = "ErrFrameTooLarge" => DeclaresOver(g.from)
            /\ DeclaresLimit(g.from) /\ BLen(g.from) >= 5 + 1048576 =>
                  g.err = "nil" /\ BLen(g.msg.Payload) = 1048576

\* the header of TestFrameTooLarge, with payload bytes behind it, was refused
\* and the payload bytes are still in the stream
C28_Witness ==
    /\ pr.got # <<>>
    /\ Take(pr.got[1].from, 5) = Lit(<<2, 16, 0, 0, 1>>)
    /\ pr.got[1].err = "ErrFrameTooLarge"
    /\ pr.got[1].n = 5
    /\ BLen(pr.stream) > 0

\* C29: a successful Decode takes exactly 5 + length bytes from the stream: the
\* first k Decode calls on a stream that begins with k encoded frames return
\* those frames in order, and whatever was written behind the frames read so
\* far is still in the stream.
C29_OneFramePerDecode ==
    /\ \A i \in 1..Len(pr.got) :
          /\ pr.got[i].err = "nil" =>
                pr.got[i].n = 5 + BLen(pr.got[i].msg.Payload)
          /\ i <= Len(pr.sent) /\ FramesOnly(i) =>
                /\ pr.got[i].err = "nil"
                /\ pr.got[i].msg = pr.sent[i].msg
    /\ Len(pr.got) <= Len(pr.sent) /\ FramesOnly(Len(pr.got)) =>
          pr.stream = Written(Len(pr.got))

\* two different frames were read back in order; and one frame was read with
\* other bytes behind it, which are still in the stream
C29_Witness ==
    /\ Len(pr.sent) = 2
    /\ FramesOnly(2)
    /\ Len(pr.got) = 2
    /\ pr.sent[1].msg # pr.sent[2].msg
    /\ pr.sent[1].msg.Payload # <<>>
    /\ pr.got[1].msg = pr.sent[1].msg
    /\ pr.got[2].msg = pr.sent[2].msg
    /\ pr.stream = <<>>

\* C30: Encode produces exactly 5 + len(payload) bytes: byte 0 is the type tag
\* (0 Auth, 1 AuthResponse, 2 Data, 3 Close, 4 Heartbeat), bytes 1..4 the
\* payload length as a big-endian unsigned 32-bit integer, the rest the payload.
C30_WireLayout ==
    /\ <<MsgAuth, MsgAuthResponse, MsgData, MsgClose, MsgHeartbeat>> = <<0, 1, 2, 3, 4>>
    /\ pr.enc.err = "nil" =>
          LET f == pr.enc.frame
              n == BLen(pr.enc.msg.Payload)
          IN /\ BLen(f) = 5 + n
             /\ At(f, 0) = pr.enc.msg.Type
             /\ At(f, 1) = n \div 16777216
             /\ At(f, 2) = (n \div 65536) % 256
             /\ At(f, 3) = (n \div 256) % 256
             /\ At(f, 4) = n % 256
             /\ Drop(f, 5) = pr.enc.msg.Payload

\* a Close frame of 1,048,575 = 0x0FFFFF payload bytes was encoded
C30_Witness ==
    /\ pr.enc.err = "nil"
    /\ pr.enc.msg.Type = 3
    /\ BLen(pr.enc.msg.Payload) = 1048575
    /\ Take(pr.enc.frame, 5) = Lit(<<3, 0, 15, 255, 255>>)

\* C39: the running flag of the client is true only while a Start call is in
\* progress: once every Start call has returned (after a cancellation or a
\* failed listen) the flag is false again, so that a new Start is not refused
C39_RunningOnlyWhileStarted ==
    cl.running => \E k \in Starts : InProgress(k)

\* C36: in dialWithRetry the wait after the first failed attempt is the
\* configured initial delay (500ms when it is 0), and each later wait is the
\* smaller of twice the wait before it and the cap (5s when it is 0)
C36_WaitSequence ==
    \A j \in Locals :
        LET w == cl.lc[j].waits
            first == IF cl.cfg.backoffInitial = 0 THEN 500 ELSE cl.cfg.backoffInitial
            cap == IF cl.cfg.backoffMax = 0 THEN 5000 ELSE cl.cfg.backoffMax
        IN  \A n \in DOMAIN w :
                w[n] = IF n = 1 THEN first
                       ELSE IF 2 * w[n - 1] < cap THEN 2 * w[n - 1] ELSE cap

\* three attempts have failed with the delay 300ms and the cap 1000ms: the
\* two waits lasted 300ms and 600ms
C36_Witness ==
    /\ cl.cfg.backoffInitial = 300
    /\ cl.cfg.backoffMax = 1000
    /\ cl.lc[1].dials >= 3
    /\ Len(cl.lc[1].waits) >= 2
    /\ cl.lc[1].waits[1] = 300
    /\ cl.lc[1].waits[2] = 600

\* C38: proxyWithIdle returns after both copy directions have ended; what it
\* returns is nil as long as no direction has ended with an error other than
\* "already closed", and from then on the first such error in the order of
\* completion: an error kept is never replaced, a nil or "already closed"
\* result is never kept, and "already closed" is never returned
C38_FirstRealError ==
    /\ [](\A c \in Conn :
            /\ px[c].firstErr # "closed"
            /\ px[c].nrecv = 0 => px[c].firstErr = "nil"
            /\ px[c].main = "ret" => px[c].nrecv = 2)
    /\ [][\A c \in Conn, s \in Sides :
            \A o \in CopyOutcomes(ep[c][s], ep[c][Other(s)], TRUE, TRUE) :
            CopyEndEff(c, s, o)
            => LET e == CopyErr(o) IN
               /\ px'[c].nrecv = px[c].nrecv + 1
               /\ px[c].firstErr # "nil" => px'[c].firstErr = px[c].firstErr
               /\ (px[c].firstErr = "nil" /\ e \in {"nil", "closed"})
                  => px'[c].firstErr = "nil"
               /\ (px[c].firstErr = "nil" /\ e \notin {"nil", "closed"})
                  => px'[c].firstErr = e]_vars
    /\ [][\A c \in Conn :
            (px[c].main = "wait" /\ px'[c].main = "ret")
            => px'[c].firstErr = px[c].firstErr]_vars

\* the call has returned a timeout although the connection it was reading
\* from when the other direction ended had been closed under it
C38_Witness ==
    /\ px[1].main = "ret"
    /\ px[1].nrecv = 2
    /\ px[1].firstErr = "timeout"
    /\ cfg.idle > 0

\* the step admits connection c: registerConn returns true
Admits(c) == hpc[c] = "none" /\ hpc'[c] \notin {"none", "rejected"}

\* C37: the IDs issued so far are 1..nextID, and the registry holds issued IDs
\* only; an admitted connection is registered under a new ID greater than all
\* of them, whatever has been removed from the registry, and the other entries
\* stay; the counter moves at an admission only and never back; a rejected
\* connection takes no ID and leaves the registry as it was
C37_FreshIDs ==
    /\ [](\A i \in DOMAIN conns : 1 <= i /\ i <= nextID)
    /\ [][\A c \in Conn :
            Admits(c)
            => /\ nextID' > nextID
               /\ nextID' \notin DOMAIN conns
               /\ DOMAIN conns' = DOMAIN conns \cup {nextID'}
               /\ conns'[nextID'] = c
               /\ \A i \in DOMAIN conns : conns'[i] = conns[i]]_vars
    /\ [][nextID' >= nextID]_vars
    /\ [][nextID' # nextID => \E c \in Conn : Admits(c)]_vars
    /\ [][\A c \in Conn :
            (hpc[c] = "none" /\ hpc'[c] = "rejected")
            => nextID' = nextID /\ conns' = conns]_vars

\* connection 1 was registered under ID 1 and has been removed; connection 2
\* is registered under ID 2, the only entry
C37_Witness ==
    /\ hpc[1] = "done"
    /\ nextID = 2
    /\ DOMAIN conns = {2}
    /\ conns[2] = 2

\* a connection has been rejected at the limit: one ID issued, one entry
C37_RejectWitness ==
    /\ hpc[2] = "rejected"
    /\ nextID = 1
    /\ DOMAIN conns = {1}

\* C33: when the handler of a connection has ended the connection is no longer
\* in the registry; a handler holds an upstream connection only from the moment
\* proxyWithIdle starts, and leaves that position by connPool.Release alone,
\* which closes the upstream connection and gives one slot back; a handler that
\* has returned takes no further step on the pool and does not come back, so
\* that the release happens once; a handler that ends in the handshake or
\* waiting for a slot leaves the slots as they are, and one whose dial fails
\* has no upstream connection and gives back the slot its Acquire took
C33_UnregisterAndReleaseOnce ==
    /\ [](\A c \in Conn :
            /\ hpc[c] = "done" => ~Registered(c)
            /\ ep[c]["b"].st # "none" => hpc[c] \in {"proxy", "exit", "done"}
            /\ (hpc[c] = "exit" /\ ep[c]["b"].st # "none") => ep[c]["b"].st = "closed")
    /\ [][\A c \in Conn :
            (hpc[c] = "proxy" /\ hpc'[c] # "proxy")
            => /\ hpc'[c] = "exit"
               /\ px[c].main = "ret"
               /\ ep'[c]["b"].st = "closed"
               /\ sem' = IF sem > 0 THEN sem - 1 ELSE 0]_vars
    /\ [][\A c \in Conn :
            (hpc[c] = "exit" /\ hpc'[c] # "exit")
            => /\ hpc'[c] = "done"
               /\ \A i \in DOMAIN conns' : conns'[i] # c
               /\ sem' = sem]_vars
    /\ [][\A c \in Conn : hpc[c] = "done" => hpc'[c] = "done"]_vars
    /\ [][\A c \in Conn :
            (hpc[c] \in {"hs_read", "hs_write", "acquire"} /\ hpc'[c] = "exit")
            => sem' = sem /\ ep'[c]["b"].st = "none"]_vars
    /\ [][\A c \in Conn :
            (hpc[c] = "dial" /\ hpc'[c] = "exit")
            => /\ ep'[c]["b"].st = "none"
               /\ sem' = IF sem > 0 THEN sem - 1 ELSE 0]_vars

\* the handler of connection 1 has proxied and ended while Serve goes on
\* accepting: its upstream connection is closed, its slot is back and the
\* registry is empty again
C33_Witness ==
    /\ serve = "accept"
    /\ hpc[1] = "done"
    /\ ep[1]["b"].st = "closed"
    /\ nextID = 1
    /\ DOMAIN conns = {}
    /\ sem = 0

\* the Acquire calls that hold a slot: past the send on sem, and not failed
Holding == {c \in PoolConns : pq.pos[c] \in {"dial", "got"}}

\* C34: an Acquire whose context is done before it has a slot returns the
\* cancellation error and no connection, and leaves the slots held as they
\* are; an Acquire whose dial fails returns the dial error and no connection
\* and gives back the slot it took; so, as long as no Release and no Close has
\* run, the slots held are those of the calls that are dialling or have
\* returned a connection: a failed call holds none, as before it was made
C34_FailedAcquireHoldsNothing ==
    /\ [][\A c \in PoolConns :
            (pq.pos[c] = "idle" /\ pq'.pos[c] = "failed")
            => /\ pq'.err[c] = "ctx"
               /\ pq'.conn[c] = "none"
               /\ pq'.sem = pq.sem]_vars
    /\ [][\A c \in PoolConns :
            (pq.pos[c] = "dial" /\ pq'.pos[c] = "failed")
            => /\ pq'.err[c] = "dial"
               /\ pq'.conn[c] = "none"
               /\ pq'.sem = IF pq.sem > 0 THEN pq.sem - 1 ELSE 0]_vars
    /\ []((pq.pc = "on" /\ pq.released = 0 /\ pq.closing = "none")
            => pq.sem = Cardinality(Holding))
    /\ [](pq.pc = "on" =>
            \A c \in PoolConns :
                /\ pq.pos[c] = "failed" <=> pq.err[c] # "none"
                /\ pq.pos[c] = "failed" => pq.conn[c] = "none")

\* one Acquire has failed on its dial and another on its context; no slot is
\* held
C34_Witness ==
    /\ pq.pc = "on"
    /\ pq.released = 0
    /\ pq.closing = "none"
    /\ pq.err[1] = "dial"
    /\ pq.err[2] = "ctx"
    /\ pq.sem = 0

\* C35: once HandshakeServer has returned, on whatever path, the connection
\* carries no deadline - so it carries none when the handler goes on to the
\* pool and the proxy engine - and with a deadline argument of zero none is
\* ever set during the handshake; the same holds of HandshakeClient
C35_DeadlineCleared ==
    /\ \A c \in Conn :
          /\ hpc[c] \in {"acquire", "dial", "exit"} => ~ep[c]["a"].dl
          /\ (hpc[c] \in {"hs_read", "hs_write"} /\ cfg.timeout = 0) => ~ep[c]["a"].dl
    /\ hc.pc = "ret" => ~hc.dl
    /\ (hc.pc \in {"write", "read"} /\ ~hc.tmo) => ~hc.dl

\* both ends had set a deadline; the server has refused the password and both
\* calls have returned the error, the deadlines cleared
C35_Witness ==
    /\ cfg.timeout > 0
    /\ hc.tmo
    /\ hpc[1] = "exit"
    /\ herr[1] = "auth_failed"
    /\ ~ep[1]["a"].dl
    /\ hc.pc = "ret"
    /\ hc.err = "auth_failed"
    /\ ~hc.dl

\* C40: with the listener closed and the context cancelled, Serve comes to
\* return whatever the peers do or leave undone: until it has returned, the
\* server itself - Serve, its shutdown, a handler, a proxy - has a step to take
\* without any peer sending or closing, for every idle timeout
C40_ShutdownNeedsNoPeer ==
    (lnClosed /\ ctxDone /\ serve # "returned") => ENABLED ServerStep

\* the passwords an Auth frame may carry
Passwords == {"good", "bad", "bytes"}

\* C32: Authenticate is false for every password when the hash is empty, and
\* otherwise true exactly for the password the stored hash is the hash of;
\* HandshakeServer's verdict on an Auth frame is that of Authenticate on the
\* password it carries; so with an empty hash the server never passes a
\* handshake, answers every password with the rejection, and returns
\* ErrAuthFailed once it has written it
C32_EmptyHashRejectsAll ==
    /\ [](\A h \in Hashes, pw \in Passwords :
            Authenticate(h, pw) <=> (h # "" /\ h = HashPassword(pw)))
    /\ [][(hpc[1] = "hs_read" /\ hpc'[1] = "hs_write")
          => LET pw == Payload(Head(ep[1]["a"].inbuf)) IN
             hs'[1] = IF cfg.hash # "" /\ cfg.hash = HashPassword(pw)
                      THEN "pass" ELSE "reject"]_vars
    /\ []((cfg.hash = "" /\ hc.mode # "client_only")
            => /\ hs[1] \notin {"pass", "ok"}
               /\ hpc[1] # "acquire"
               /\ hpc[1] = "exit" => herr[1] # "none"
               /\ ep[1]["a"].out \in {<<>>, <<"resp_invalid">>}
               /\ (hpc[1] = "exit" /\ ep[1]["a"].out # <<>>)
                  => herr[1] = "auth_failed"
               /\ (hc.mode = "pair" /\ hc.pc = "ret") => hc.err # "nil")

\* no hash is configured: the client has sent the password "good", the server
\* has answered "invalid credentials" and both have returned ErrAuthFailed
C32_Witness ==
    /\ cfg.hash = ""
    /\ hc.mode = "pair"
    /\ hc.pw = "good"
    /\ hpc[1] = "exit"
    /\ herr[1] = "auth_failed"
    /\ ep[1]["a"].out = <<"resp_invalid">>
    /\ hc.pc = "ret"
    /\ hc.err = "auth_failed"

\* ------------------------------------------------- session tokens
\* the longest token asked for, in bytes, and the calls made
MaxTokenLen == 3
MaxTokenCalls == 2

\* the lengths GenerateToken is called with
TokenLengths == -1..MaxTokenLen

\* the randomness sources it is called with: one that returns an error, the
\* fakeRand of TestGenerateToken (b[i] = i + 1), and one that fills the buffer
\* with the byte 255
RandSources == {"fail", "count", "ones"}

\* what a source that succeeds leaves in a buffer of n bytes
Fill(src, n) == [i \in 1..n |-> IF src = "count" THEN i ELSE 255]

\* hex.EncodeToString: two digits of "0123456789abcdef" for each byte
HexTable ==
    <<"0", "1", "2", "3", "4", "5", "6", "7", "8", "9", "a", "b", "c", "d", "e", "f">>

EncodeToString(buf) ==
    [i \in 1..(2 * Len(buf)) |->
        IF i % 2 = 1 THEN HexTable[(buf[(i + 1) \div 2] \div 16) + 1]
        ELSE HexTable[(buf[i \div 2] % 16) + 1]]

\* GenerateToken(n, randSrc): the token (the empty string when it fails) and
\* the error: "length" is the error made by fmt.Errorf("token length must be
\* >0") at line 93, "token_generation" the one made at line 101 with
\* fmt.Errorf("%w: %v", ErrTokenGeneration, err)
GenerateToken(n, src) ==
    IF n <= 0 THEN [token |-> <<>>, err |-> "length"]
    ELSE IF src = "fail" THEN [token |-> <<>>, err |-> "token_generation"]
    ELSE [token |-> EncodeToString(Fill(src, n)), err |-> "nil"]

\* errors.Is(err, ErrTokenGeneration): true of ErrTokenGeneration itself and of
\* an error that wraps it with %w, false of an error made from a format
\* without %w
IsErrTokenGeneration(err) == err = "token_generation"

\* the calls made so far, each with its arguments and what it returned
TkNew == [pc |-> "on", calls |-> <<>>]

notToken == <<cfg, serve, ctxDone, lnClosed, conns, nextID, wg, sem, hpc, herr, hs, ep, px, now, tm, hc, cl, pr, pq>>

\* one call GenerateToken(n, src)
TokenCall(n, src) ==
    /\ tk.pc = "on"
    /\ Len(tk.calls) < MaxTokenCalls
    /\ tk' = [tk EXCEPT !.calls =
                Append(@, [n |-> n, src |-> src, ret |-> GenerateToken(n, src)])]
    /\ UNCHANGED notToken

TokenInit ==
    /\ ServerOff
    /\ cl = ClOff
    /\ pr = PrOff
    /\ pq = PqOff
    /\ tk = TkNew

TokenNext == \E n \in TokenLengths, src \in RandSources : TokenCall(n, src)

\* calls of GenerateToken
TokenSpec == TokenInit /\ [][TokenNext]_vars

\* C31: a call of GenerateToken with a length <= 0, or whose randomness source
\* returns an error, returns no token and an error that is ErrTokenGeneration
C31_TokenGenerationError ==
    tk.pc = "on" =>
        \A i \in DOMAIN tk.calls :
            LET call == tk.calls[i] IN
            (call.n <= 0 \/ call.src = "fail")
            => /\ call.ret.token = <<>>
               /\ call.ret.err # "nil"
               /\ IsErrTokenGeneration(call.ret.err)

====
